---- MODULE Spec2Model ----
(***************************************************************************)
(* Verification model of the gochain segmented key/value table             *)
(* (ethdb.Table, ethdb.SegmentSet).                                        *)
(*                                                                         *)
(* SpecSS drives one SegmentSet directly from concurrent callers, with     *)
(* every lock region and every semaphore wait of a method as one step.     *)
(* Spec drives one Table (which owns a SegmentSet) from concurrent         *)
(* threads; SpecSeq is the same Table driven by a single thread.           *)
(***************************************************************************)
EXTENDS Integers, Sequences, FiniteSets, TLC

\* ---------------------------------------------------------------- bounds
NumCallers == 2
NumThreads == 2
MaxOpenBound == 2
MaxMinMutable == 1
MaxBatchOps == 1

\* Goroutines calling one SegmentSet (SpecSS) and one Table (Spec).
Callers == 1..NumCallers

Threads == 1..NumThreads

\* Segment names are strings; they are modelled as byte sequences so that
\* the order the code uses (Go's string <) is lexicographic and not numeric.
Names == {<<1>>, <<1, 0>>, <<2>>}

\* Go's nil, for a Segment and for an error.
Nil == [name |-> "nil"]

NoError == "nil"

VARIABLES
  segments,    \* SegmentSet.segments : name -> Segment (the universe)
  semaphore,   \* SegmentSet.semaphore: number of permits taken
  cache,       \* SegmentSet.cache    : LRU entries, most recently used first
  maxOpen,     \* capacity NewSegmentSet gave the semaphore and the LRU
  evictCalls,  \* history: names onEvicted called Close/Purge on in the last step
  pc,          \* per thread: the place in the method it runs
  frame,       \* per thread: the locals of the method it runs
  ret,         \* history: what the method that returned in the last step returned
  opened,      \* Table.Open has run
  active,      \* Table.active
  ldbSegments, \* Table.ldbSegments: name -> LDBSegment
  mu,          \* Table.mu: 0, or the thread that holds the write lock
  MinMutableSegmentCount, \* Table.MinMutableSegmentCount
  batches,     \* tableBatch.batches of the one batch: name -> ldbSegmentBatch
  stateDBs,    \* the StateDBs made so far, the first by New, the others by Copy
  codeBlobs,   \* the code blobs of the trie database the StateDBs share
  dbret,       \* history: what the StateDB method of the last step did and returned
  atSnapshot,  \* history: <<StateDB, id>> -> what the StateDB reported when Snapshot gave id
  subs,        \* EventFeed.subs: the map m of channel -> name, or the nil map
  chans,       \* the channels handed to the EventFeed: closed, number of queued events
  subscribed,  \* history: per channel, the number of Subscribe calls made with it
  feedPanic    \* history: the run-time panic that ended the program, if any

ssVars == <<segments, semaphore, cache, maxOpen>>
tblVars == <<opened, active, ldbSegments, mu, MinMutableSegmentCount>>
sdbVars == <<stateDBs, codeBlobs, dbret, atSnapshot>>
feedVars == <<subs, chans, subscribed, feedPanic>>
vars == <<segments, semaphore, cache, maxOpen, evictCalls, pc, frame, ret,
          opened, active, ldbSegments, mu, MinMutableSegmentCount, batches,
          stateDBs, codeBlobs, dbret, atSnapshot, subs, chans, subscribed, feedPanic>>

\* ---------------------------------------------------------------- EventFeed
NumChans == 2
MaxChanCap == 1
MaxSubscribes == 2

\* The channels the callers hand to Subscribe, Unsubscribe and the receivers.
Chans == 1..NumChans

\* The nil map EventFeed.subs is before the first Subscribe and after Close.
NilSubs == [nil |-> TRUE, m |-> <<>>]

\* No goroutine has panicked.
NoPanic == "none"

\* The zero EventFeed; every channel is open and empty.
FeedIdle ==
  /\ subs = NilSubs
  /\ chans = [c \in Chans |-> [closed |-> FALSE, len |-> 0]]
  /\ subscribed = [c \in Chans |-> 0]
  /\ feedPanic = NoPanic

\* ------------------------------------------------------------ Go maps
EmptyMap == [x \in {} |-> Nil]

MapPut(m, k, v) == [x \in (DOMAIN m) \cup {k} |-> IF x = k THEN v ELSE m[x]]

MapDelete(m, k) == [x \in (DOMAIN m) \ {k} |-> m[x]]

MapGet(m, k) == IF k \in DOMAIN m THEN m[k] ELSE Nil

\* ------------------------------------------------- strings (segment names)
\* Go's s < t on strings: bytewise lexicographic, a proper prefix is smaller.
RECURSIVE StringLess(_, _)
StringLess(s, t) ==
  IF t = <<>> THEN FALSE
  ELSE IF s = <<>> THEN TRUE
  ELSE IF s[1] # t[1] THEN s[1] < t[1]
  ELSE StringLess(Tail(s), Tail(t))

\* ------------------------------------------------------ the LRU (lru.Cache)
\* An entry is [key |-> name, value |-> Segment]; index 1 is the most
\* recently used entry, the last index the eviction candidate.
lruIndex(c, k) ==
  IF \E i \in 1..Len(c) : c[i].key = k
  THEN CHOOSE i \in 1..Len(c) : c[i].key = k
  ELSE 0

lruWithout(c, i) == [j \in 1..(Len(c) - 1) |-> IF j < i THEN c[j] ELSE c[j + 1]]

\* cache.Get: a hit moves the entry to the front.
lruGet(c, k) ==
  LET i == lruIndex(c, k) IN
  IF i = 0 THEN [ok |-> FALSE, value |-> Nil, cache |-> c]
  ELSE [ok |-> TRUE, value |-> c[i].value, cache |-> <<c[i]>> \o lruWithout(c, i)]

\* cache.Add with size `size`: an existing key is updated and moved to the
\* front; a new key is pushed to the front and, when the cache then holds
\* more than `size` entries, the oldest one is removed and handed to the
\* eviction callback.  Returns the cache and the evicted keys.
\* (lruAddNoEvict is the Add of a cache that never evicts; C8 depends on the
\* difference.)
lruAddNoEvict(c, k, v, size) ==
  LET i == lruIndex(c, k) IN
  IF i # 0 THEN [cache |-> <<[key |-> k, value |-> v]>> \o lruWithout(c, i), evicted |-> <<>>]
  ELSE [cache |-> <<[key |-> k, value |-> v]>> \o c, evicted |-> <<>>]

lruAdd(c, k, v, size) ==
  LET i == lruIndex(c, k) IN
  IF i # 0 THEN [cache |-> <<[key |-> k, value |-> v]>> \o lruWithout(c, i), evicted |-> <<>>]
  ELSE LET pushed == <<[key |-> k, value |-> v]>> \o c IN
       IF Len(pushed) > size
       THEN [cache |-> SubSeq(pushed, 1, Len(pushed) - 1), evicted |-> <<pushed[Len(pushed)].key>>]
       ELSE [cache |-> pushed, evicted |-> <<>>]

\* cache.Remove: a present key is removed and handed to the eviction callback.
lruRemove(c, k) ==
  LET i == lruIndex(c, k) IN
  IF i = 0 THEN [cache |-> c, evicted |-> <<>>]
  ELSE [cache |-> lruWithout(c, i), evicted |-> <<k>>]

\* cache.Purge: every entry is handed to the eviction callback.
lruPurge(c) == [cache |-> <<>>, evicted |-> [i \in 1..Len(c) |-> c[i].key]]

\* ------------------------------------------------------------- SegmentSet
\* A Segment object: its name and its content (ordered key/value pairs).
Segment(name, data) == [name |-> name, data |-> data]

\* NewSegmentSet: a count below 1 becomes 1.
NewSegmentSet(maxOpenCount) == IF maxOpenCount < 1 THEN 1 ELSE maxOpenCount

\* semaphore.Acquire(ctx, 1) returns nil once a permit is free.
SemaphoreFree(cur, size) == cur < size

\* onEvicted for one key: looks the name up in the universe and calls Purge
\* or Close on the segment found there; a name that is not in the universe
\* gets no call.  Returns the names a call was made on.
onEvicted(segs, key) == IF MapGet(segs, key) = Nil THEN <<>> ELSE <<key>>

RECURSIVE onEvictedAll(_, _)
onEvictedAll(segs, keys) ==
  IF keys = <<>> THEN <<>>
  ELSE onEvicted(segs, Head(keys)) \o onEvictedAll(segs, Tail(keys))

\* SegmentSet.Remove, lines 82-84: the name leaves the universe.
\* (removeKept is a Remove that leaves it there; C1 depends on the difference.)
removeKept(segs, name) == segs

remove(segs, name) == MapDelete(segs, name)

\* --------------------------------------------- callers of one SegmentSet
Idle(t) == pc[t] = "idle"

NoFrame == [op |-> "none"]

NoReturn == [op |-> "none"]

\* Caller t moves on to `label`; on "idle" its method has returned `fr`.
Goto(t, label, fr) ==
  /\ pc' = [pc EXCEPT ![t] = label]
  /\ frame' = [frame EXCEPT ![t] = IF label = "idle" THEN NoFrame ELSE fr]
  /\ ret' = IF label = "idle" THEN [thread |-> t] @@ fr ELSE NoReturn
  /\ UNCHANGED <<tblVars, batches>>

\* The segment thread t got from Acquire and has not released.
Holding(t) == pc[t] = "acquired"

\* SegmentSet.Add
SSAdd(t, name) ==
  /\ Idle(t)
  /\ segments' = MapPut(segments, name, Segment(name, <<>>))
  /\ UNCHANGED <<sdbVars, feedVars>>
  /\ evictCalls' = <<>>
  /\ Goto(t, "idle", [op |-> "Add", name |-> name])
  /\ UNCHANGED <<semaphore, cache, maxOpen>>

\* SegmentSet.Acquire, line 97: take one permit (waits while none is free).
SSAcquireSem(t, name) ==
  /\ Idle(t)
  /\ SemaphoreFree(semaphore, maxOpen)
  /\ semaphore' = semaphore + 1
  /\ UNCHANGED <<sdbVars, feedVars>>
  /\ evictCalls' = <<>>
  /\ Goto(t, "Acquire_cache", [op |-> "Acquire", name |-> name])
  /\ UNCHANGED <<segments, cache, maxOpen>>

\* SegmentSet.Acquire, lines 100-102: a cache hit returns the cached segment.
SSAcquireCache(t) ==
  /\ pc[t] = "Acquire_cache"
  /\ LET g == lruGet(cache, frame[t].name) IN
     /\ cache' = g.cache
     /\ IF g.ok
        THEN Goto(t, "acquired", [frame[t] EXCEPT !.op = "Acquire"] @@ [seg |-> g.value, err |-> NoError])
        ELSE Goto(t, "Acquire_lookup", frame[t])
  /\ UNCHANGED <<sdbVars, feedVars>>
  /\ evictCalls' = <<>>
  /\ UNCHANGED <<segments, semaphore, maxOpen>>

\* An Acquire that keeps its permit when the segment's Open fails.
SSAcquireLookupKeepsPermit(t, openFails) ==
  /\ pc[t] = "Acquire_lookup"
  /\ LET s == MapGet(segments, frame[t].name) IN
     IF s = Nil
     THEN /\ semaphore' = semaphore - 1
          /\ Goto(t, "idle", frame[t] @@ [seg |-> Nil, err |-> NoError])
     ELSE IF openFails
     THEN /\ semaphore' = semaphore
          /\ Goto(t, "idle", frame[t] @@ [seg |-> Nil, err |-> "open"])
     ELSE /\ semaphore' = semaphore
          /\ Goto(t, "Acquire_add", frame[t] @@ [s |-> s])
  /\ UNCHANGED <<sdbVars, feedVars>>
  /\ evictCalls' = <<>>
  /\ UNCHANGED <<segments, cache, maxOpen>>

\* SegmentSet.Acquire, lines 105-121: look the name up in the universe; an
\* unknown name, or a segment whose Open fails, gives the permit back.
SSAcquireLookup(t, openFails) ==
  /\ pc[t] = "Acquire_lookup"
  /\ LET s == MapGet(segments, frame[t].name) IN
     IF s = Nil
     THEN /\ semaphore' = semaphore - 1
          /\ Goto(t, "idle", frame[t] @@ [seg |-> Nil, err |-> NoError])
     ELSE IF openFails
     THEN /\ semaphore' = semaphore - 1
          /\ Goto(t, "idle", frame[t] @@ [seg |-> Nil, err |-> "open"])
     ELSE /\ semaphore' = semaphore
          /\ Goto(t, "Acquire_add", frame[t] @@ [s |-> s])
  /\ UNCHANGED <<sdbVars, feedVars>>
  /\ evictCalls' = <<>>
  /\ UNCHANGED <<segments, cache, maxOpen>>

\* SegmentSet.Acquire, lines 122-124: cache the opened segment; the LRU may
\* evict its oldest entry, which runs onEvicted on this thread.
SSAcquireAdd(t) ==
  /\ pc[t] = "Acquire_add"
  /\ LET a == lruAdd(cache, frame[t].name, frame[t].s, maxOpen) IN
     /\ cache' = a.cache
     /\ UNCHANGED <<sdbVars, feedVars>>
     /\ evictCalls' = onEvictedAll(segments, a.evicted)
  /\ Goto(t, "acquired", [op |-> "Acquire", name |-> frame[t].name, seg |-> frame[t].s, err |-> NoError])
  /\ UNCHANGED <<segments, semaphore, maxOpen>>

\* SegmentSet.Release by a caller that holds a segment from Acquire.
SSRelease(t) ==
  /\ Holding(t)
  /\ semaphore' = semaphore - 1
  /\ UNCHANGED <<sdbVars, feedVars>>
  /\ evictCalls' = <<>>
  /\ Goto(t, "idle", [op |-> "Release", name |-> frame[t].name])
  /\ UNCHANGED <<segments, cache, maxOpen>>

\* SegmentSet.Remove, lines 82-84: delete the name from the universe.
SSRemoveDelete(t, name, cancelled) ==
  /\ Idle(t)
  /\ segments' = remove(segments, name)
  /\ UNCHANGED <<sdbVars, feedVars>>
  /\ evictCalls' = <<>>
  /\ Goto(t, "Remove_sem", [op |-> "Remove", name |-> name, cancelled |-> cancelled])
  /\ UNCHANGED <<semaphore, cache, maxOpen>>

\* A Remove that drops the cached entry also when ctx is done.
SSRemoveSemDropsEntry(t) ==
  /\ pc[t] = "Remove_sem"
  /\ \/ /\ SemaphoreFree(semaphore, maxOpen)
        /\ semaphore' = semaphore + 1
        /\ cache' = cache
        /\ Goto(t, "Remove_cache", frame[t])
     \/ /\ frame[t].cancelled
        /\ semaphore' = semaphore
        /\ cache' = lruRemove(cache, frame[t].name).cache
        /\ Goto(t, "idle", frame[t] @@ [early |-> TRUE])
  /\ UNCHANGED <<sdbVars, feedVars>>
  /\ evictCalls' = <<>>
  /\ UNCHANGED <<segments, maxOpen>>

\* SegmentSet.Remove, lines 86-88: semaphore.Acquire(ctx, 1) takes a permit
\* when one is free, and returns an error when ctx is done.
SSRemoveSem(t) ==
  /\ pc[t] = "Remove_sem"
  /\ \/ /\ SemaphoreFree(semaphore, maxOpen)
        /\ semaphore' = semaphore + 1
        /\ Goto(t, "Remove_cache", frame[t])
     \/ /\ frame[t].cancelled
        /\ semaphore' = semaphore
        /\ Goto(t, "idle", frame[t] @@ [early |-> TRUE])
  /\ UNCHANGED <<sdbVars, feedVars>>
  /\ evictCalls' = <<>>
  /\ UNCHANGED <<segments, cache, maxOpen>>

\* SegmentSet.Remove, lines 89-90: drop the cached entry, give the permit back.
SSRemoveCache(t) ==
  /\ pc[t] = "Remove_cache"
  /\ LET r == lruRemove(cache, frame[t].name) IN
     /\ cache' = r.cache
     /\ UNCHANGED <<sdbVars, feedVars>>
     /\ evictCalls' = onEvictedAll(segments, r.evicted)
  /\ semaphore' = semaphore - 1
  /\ Goto(t, "idle", frame[t] @@ [early |-> FALSE])
  /\ UNCHANGED <<segments, maxOpen>>

\* SegmentSet.Close, lines 161-163: clear the universe.
SSCloseClear(t) ==
  /\ Idle(t)
  /\ segments' = EmptyMap
  /\ UNCHANGED <<sdbVars, feedVars>>
  /\ evictCalls' = <<>>
  /\ Goto(t, "Close_purge", [op |-> "Close"])
  /\ UNCHANGED <<semaphore, cache, maxOpen>>

\* SegmentSet.Close, line 165: purge the cache.
SSClosePurge(t) ==
  /\ pc[t] = "Close_purge"
  /\ LET p == lruPurge(cache) IN
     /\ cache' = p.cache
     /\ UNCHANGED <<sdbVars, feedVars>>
     /\ evictCalls' = onEvictedAll(segments, p.evicted)
  /\ Goto(t, "idle", [op |-> "Close"])
  /\ UNCHANGED <<segments, semaphore, maxOpen>>

InitSS ==
  /\ \E maxOpenCount \in 0..MaxOpenBound : maxOpen = NewSegmentSet(maxOpenCount)
  /\ segments = EmptyMap
  /\ semaphore = 0
  /\ cache = <<>>
  /\ evictCalls = <<>>
  /\ pc = [t \in Callers |-> "idle"]
  /\ frame = [t \in Callers |-> NoFrame]
  /\ ret = NoReturn
  /\ opened = FALSE
  /\ active = <<>>
  /\ ldbSegments = EmptyMap
  /\ mu = 0
  /\ MinMutableSegmentCount = 0
  /\ batches = EmptyMap
  /\ FeedIdle
  /\ stateDBs = <<>>
  /\ codeBlobs = {}
  /\ dbret = [op |-> "none"]
  /\ atSnapshot = EmptyMap

NextSS ==
  \E t \in Callers :
    \/ \E name \in Names : SSAdd(t, name)
    \/ \E name \in Names : SSAcquireSem(t, name)
    \/ SSAcquireCache(t)
    \/ \E openFails \in BOOLEAN : SSAcquireLookup(t, openFails)
    \/ SSAcquireAdd(t)
    \/ SSRelease(t)
    \/ \E name \in Names, cancelled \in BOOLEAN : SSRemoveDelete(t, name, cancelled)
    \/ SSRemoveSem(t)
    \/ SSRemoveCache(t)
    \/ SSCloseClear(t)
    \/ SSClosePurge(t)

SpecSS == InitSS /\ [][NextSS]_vars

\* ------------------------------------------------------------ Table: data
\* Keys and values are byte slices.  A nil slice and an empty slice are both
\* <<>>: bytes.Equal does not tell them apart.
Keys == {<<1, 7>>, <<2, 7>>}

Values == {<<>>, <<5>>}

ErrNotFound == "not found"

ErrImmutableSegment == "immutable segment"

\* Partitioner.Partition: the key's prefix names its segment.
Partition(key) == SubSeq(key, 1, Len(key) - 1)

bytesEqual(a, b) == a = b

\* Strings in ascending order (sort.Slice with Name() < Name()).
RECURSIVE SortStrings(_)
SortStrings(S) ==
  IF S = {} THEN <<>>
  ELSE LET m == CHOOSE x \in S : \A y \in S \ {x} : StringLess(x, y)
       IN <<m>> \o SortStrings(S \ {m})

\* The greatest of a set of strings and `a` (Open's "if name > t.active").
RECURSIVE MaxString(_, _)
MaxString(a, S) ==
  IF S = {} THEN a
  ELSE LET n == CHOOSE x \in S : TRUE
       IN MaxString(IF StringLess(a, n) THEN n ELSE a, S \ {n})

\* NewLDBSegment + Open: an empty mutable segment; data is key -> value.
NewLDBSegment(name) == [name |-> name, data |-> EmptyMap]

\* SegmentCompactor.CompactSegment: the mutable segment's pairs, written in
\* key order into an immutable segment of the same name.
CompactSegment(ldbSegment) ==
  LET ks == SortStrings(DOMAIN ldbSegment.data)
  IN Segment(ldbSegment.name, [i \in 1..Len(ks) |-> <<ks[i], ldbSegment.data[ks[i]]>>])

\* SegmentCompactor.UncompactSegment: the immutable segment's pairs loaded
\* into a fresh mutable segment of the same name.
UncompactSegment(s) ==
  [name |-> s.name,
   data |-> [k \in {s.data[i][1] : i \in 1..Len(s.data)} |->
               s.data[CHOOSE i \in 1..Len(s.data) : s.data[i][1] = k][2]]]

\* LDBSegment.Get on the segment's content.
ldbGet(data, key) ==
  IF key \in DOMAIN data THEN [value |-> data[key], err |-> NoError]
  ELSE [value |-> <<>>, err |-> ErrNotFound]

\* Segment.Get on an immutable segment's content.
fileGet(data, key) ==
  IF \E i \in 1..Len(data) : data[i][1] = key
  THEN [value |-> data[CHOOSE i \in 1..Len(data) : data[i][1] = key][2], err |-> NoError]
  ELSE [value |-> <<>>, err |-> ErrNotFound]

\* What a caller holds after AcquireSegment / CreateSegmentIfNotExists: a
\* pointer to the live LDBSegment of a name, or an immutable Segment object.
\* A pointer whose LDBSegment has been compacted away is `stale`; it then
\* carries the content the detached object had.
LdbRef(name) == [kind |-> "ldb", name |-> name, stale |-> FALSE, data |-> EmptyMap]

FileRef(s) == [kind |-> "file", name |-> s.name, stale |-> FALSE, data |-> s.data]

NoRef == [kind |-> "nil", name |-> <<>>, stale |-> FALSE, data |-> <<>>]

\* Every pointer to an LDBSegment that a compaction removed becomes stale.
Detach(fr, ldb, removed) ==
  IF "s" \in DOMAIN fr /\ fr.s.kind = "ldb" /\ ~fr.s.stale /\ fr.s.name \in removed
  THEN [fr EXCEPT !.s = [kind |-> "ldb", name |-> fr.s.name, stale |-> TRUE,
                         data |-> ldb[fr.s.name].data]]
  ELSE fr

\* SegmentSet.Acquire run from its first line to its return (lines 96-125).
Acquire(segs, c, size, name, openFails) ==
  LET g == lruGet(c, name) IN
  IF g.ok
  THEN [seg |-> g.value, err |-> NoError, cache |-> g.cache, calls |-> <<>>, permits |-> 1]
  ELSE LET s == MapGet(segs, name) IN
       IF s = Nil
       THEN [seg |-> Nil, err |-> NoError, cache |-> g.cache, calls |-> <<>>, permits |-> 0]
       ELSE IF openFails
       THEN [seg |-> Nil, err |-> "open", cache |-> g.cache, calls |-> <<>>, permits |-> 0]
       ELSE LET a == lruAdd(g.cache, name, s, size)
            IN [seg |-> s, err |-> NoError, cache |-> a.cache,
                calls |-> onEvictedAll(segs, a.evicted), permits |-> 1]

\* Table.ldbSegmentSlice: the mutable segments' names in ascending order.
\* (ldbSegmentSliceDescending sorts them the other way round; C12 depends on
\* the difference.)
ldbSegmentSliceDescending(ldb) ==
  LET a == SortStrings(DOMAIN ldb) IN [i \in 1..Len(a) |-> a[Len(a) + 1 - i]]

ldbSegmentSlice(ldb) == SortStrings(DOMAIN ldb)

\* The loop of Table.compact over the candidates: a candidate whose Stat or
\* CompactSegment fails (failAt) ends the run with that error, a candidate
\* younger than MinCompactionAge (young) is skipped, every other one is
\* added to the universe and deleted from ldbSegments.  `skipped` collects
\* the candidates the run skipped, `failed` is the one it failed on.
RECURSIVE compactLoop(_, _, _, _, _, _)
compactLoop(ldb, segs, slice, young, failAt, skipped) ==
  IF slice = <<>>
  THEN [ldb |-> ldb, segs |-> segs, err |-> NoError, skipped |-> skipped, failed |-> <<>>]
  ELSE LET n == Head(slice) IN
       IF n = failAt
       THEN [ldb |-> ldb, segs |-> segs, err |-> "compact", skipped |-> skipped, failed |-> n]
       ELSE IF n \in young
       THEN compactLoop(ldb, segs, Tail(slice), young, failAt, skipped \cup {n})
       ELSE compactLoop(MapDelete(ldb, n), MapPut(segs, n, CompactSegment(ldb[n])),
                        Tail(slice), young, failAt, skipped)

\* Table.compact going on with the next candidate after one has failed, and
\* returning the error at the end of the run.
compactKeepsGoing(ldb, segs, minMutable, young, failAt) ==
  LET slice == ldbSegmentSlice(ldb)
      cands == SubSeq(slice, 1, Len(slice) - minMutable)
      r == compactLoop(ldb, segs, cands, young \cup {failAt}, <<>>, {})
  IN IF Len(slice) < minMutable
     THEN [ldb |-> ldb, segs |-> segs, err |-> NoError, skipped |-> {}, failed |-> <<>>]
     ELSE IF \E i \in DOMAIN cands : cands[i] = failAt
     THEN [r EXCEPT !.err = "compact", !.failed = failAt, !.skipped = @ \ ({failAt} \ young)]
     ELSE r

\* Table.compact.
compact(ldb, segs, minMutable, young, failAt) ==
  LET slice == ldbSegmentSlice(ldb) IN
  IF Len(slice) < minMutable
  THEN [ldb |-> ldb, segs |-> segs, err |-> NoError, skipped |-> {}, failed |-> <<>>]
  ELSE compactLoop(ldb, segs, SubSeq(slice, 1, Len(slice) - minMutable), young, failAt, {})

\* --------------------------------------------------------- Table: threads
\* The locals of a Table method in progress.
Call(op, key, value, name, again) ==
  [op |-> op, key |-> key, value |-> value, name |-> name, again |-> again, s |-> NoRef,
   created |-> FALSE]

\* What a returned method leaves behind: its arguments, its error (value
\* holds the value a Get returned), whether it called
\* CreateSegmentIfNotExists and whether it forwarded a write to a segment.
Return(fr, value, err, created, wrote) ==
  [op |-> fr.op, key |-> fr.key, value |-> value, name |-> fr.name, again |-> fr.again,
   err |-> err, created |-> created, wrote |-> wrote]

NoCall == Call("none", <<>>, <<>>, <<>>, FALSE)

\* Thread t moves on; pointers to LDBSegments in `removed` become stale.
\* On "idle" its method has returned next[2].
Frames(t, next, ldb, removed) ==
  /\ pc' = [pc EXCEPT ![t] = next[1]]
  /\ frame' = [u \in DOMAIN frame |->
                 IF u = t THEN (IF next[1] = "idle" THEN NoCall ELSE Detach(next[2], ldb, removed))
                 ELSE Detach(frame[u], ldb, removed)]
  /\ ret' = IF next[1] = "idle" THEN [thread |-> t] @@ next[2] ELSE NoReturn
  /\ batches' = [n \in DOMAIN batches |->
                   IF n \in removed THEN [batches[n] EXCEPT !.s.stale = TRUE] ELSE batches[n]]

\* Reading through a held segment (s.Get).
RefGet(s, key) ==
  IF s.kind = "file" THEN fileGet(s.data, key)
  ELSE IF s.stale THEN ldbGet(s.data, key)
  ELSE ldbGet(ldbSegments[s.name].data, key)

\* Table.Put / tableBatch.Put after the Get of lines 288-292; Table.Get's
\* return; Table.Has's return of s.Has(key), whose bool is <<1>> for true.
AfterGet(fr, r) ==
  IF fr.op = "Get" THEN <<"idle", Return(fr, r.value, r.err, FALSE, FALSE)>>
  ELSE IF fr.op = "Has"
  THEN <<"idle", Return(fr, IF r.err = NoError THEN <<1>> ELSE <<>>,
                        IF r.err = ErrNotFound THEN NoError ELSE r.err, FALSE, FALSE)>>
  ELSE IF fr.op = "BatchDelete"
  THEN (IF r.err = ErrNotFound THEN <<"idle", Return(fr, <<>>, NoError, FALSE, FALSE)>>
        ELSE IF r.err # NoError THEN <<"idle", Return(fr, <<>>, r.err, FALSE, FALSE)>>
        ELSE <<"Create_fast", fr>>)
  ELSE IF r.err # NoError /\ r.err # ErrNotFound THEN <<"idle", Return(fr, fr.value, r.err, FALSE, FALSE)>>
  ELSE IF bytesEqual(r.value, fr.value) THEN <<"idle", Return(fr, fr.value, NoError, FALSE, FALSE)>>
  ELSE <<"Create_fast", fr>>

\* AcquireSegment gave no segment: (nil, err) or (nil, nil).
AfterNoSegment(fr, err) ==
  IF fr.op = "Delete" THEN <<"idle", Return(fr, <<>>, err, FALSE, FALSE)>>
  ELSE IF fr.op = "Has"
  THEN <<"idle", Return(fr, <<>>, IF err = NoError THEN ErrNotFound ELSE err, FALSE, FALSE)>>
  ELSE AfterGet(fr, [value |-> <<>>, err |-> err])

AfterSegment(fr, s) ==
  <<IF fr.op = "Delete" THEN "Delete_apply" ELSE "Get_read", [fr EXCEPT !.s = s]>>

\* The caller of CreateSegmentIfNotExists goes on with (s, err).
AfterCreate(fr, s, err) ==
  IF fr.op = "Put" /\ err = NoError THEN <<"Put_write", [fr EXCEPT !.s = s, !.created = TRUE]>>
  ELSE IF fr.op \in {"BatchPut", "BatchDelete"} /\ err = NoError
  THEN <<"Batch_add", [fr EXCEPT !.s = s, !.created = TRUE]>>
  ELSE <<"idle", Return(fr, fr.value, err, TRUE, FALSE)>>

\* Table.Open over a directory that holds the mutable segments ldbNames and
\* the immutable segments fileNames.
TOpen(ldbNames, fileNames) ==
  /\ ~opened
  /\ ldbNames \cap fileNames = {}
  /\ opened' = TRUE
  /\ ldbSegments' = [n \in ldbNames |-> NewLDBSegment(n)]
  /\ segments' = [n \in fileNames |-> Segment(n, <<>>)]
  /\ active' = MaxString(active, ldbNames \cup fileNames)
  /\ UNCHANGED <<sdbVars, feedVars>>
  /\ evictCalls' = <<>>
  /\ ret' = NoReturn
  /\ UNCHANGED <<semaphore, cache, maxOpen, pc, frame, mu, MinMutableSegmentCount, batches>>

\* Table.AcquireSegment (lines 147-155) as the first step of Get, Put and
\* Delete: under the read lock, the mutable segment of the name, or else
\* SegmentSet.Acquire, which waits for a permit.
TAcquireSegment(t, fr, openFails) ==
  /\ opened
  /\ Idle(t)
  /\ mu = 0
  /\ IF fr.name \in DOMAIN ldbSegments
     THEN /\ Frames(t, AfterSegment(fr, LdbRef(fr.name)), ldbSegments, {})
          /\ UNCHANGED <<sdbVars, feedVars>>
          /\ evictCalls' = <<>>
          /\ UNCHANGED <<semaphore, cache>>
     ELSE /\ SemaphoreFree(semaphore, maxOpen)
          /\ LET a == Acquire(segments, cache, maxOpen, fr.name, openFails) IN
             /\ cache' = a.cache
             /\ semaphore' = semaphore + a.permits
             /\ UNCHANGED <<sdbVars, feedVars>>
             /\ evictCalls' = a.calls
             /\ IF a.seg = Nil
                THEN Frames(t, AfterNoSegment(fr, a.err), ldbSegments, {})
                ELSE Frames(t, AfterSegment(fr, FileRef(a.seg)), ldbSegments, {})
  /\ UNCHANGED <<segments, maxOpen, opened, active, ldbSegments, mu, MinMutableSegmentCount>>

\* Table.Get (lines 273-280).
TGet(t, key, openFails) ==
  TAcquireSegment(t, Call("Get", key, <<>>, Partition(key), FALSE), openFails)

\* Table.Has (lines 260-267).
THas(t, key, openFails) ==
  TAcquireSegment(t, Call("Has", key, <<>>, Partition(key), FALSE), openFails)

\* Table.Put (line 288): `again` records that this Put repeats, with the same
\* key and value, the Put this thread has just returned nil from.
TPut(t, key, value, openFails) ==
  TAcquireSegment(t, Call("Put", key, value, Partition(key),
                          /\ ret.op = "Put"
                          /\ ret.thread = t
                          /\ ret.key = key
                          /\ ret.value = value
                          /\ ret.err = NoError), openFails)

\* Table.Delete (lines 303-308).
TDelete(t, key, openFails) ==
  TAcquireSegment(t, Call("Delete", key, <<>>, Partition(key), FALSE), openFails)

\* A ReleaseSegment that releases a permit for every kind of segment.
TGetReadReleasesAlways(t, closed) ==
  /\ pc[t] = "Get_read"
  /\ closed => (frame[t].s.kind = "ldb" /\ frame[t].s.stale)
  /\ LET fr == frame[t]
         r == IF closed THEN [value |-> <<>>, err |-> "closed"] ELSE RefGet(fr.s, fr.key)
     IN Frames(t, AfterGet([fr EXCEPT !.s = NoRef], r), ldbSegments, {})
  /\ semaphore' = semaphore - 1
  /\ UNCHANGED <<sdbVars, feedVars>>
  /\ evictCalls' = <<>>
  /\ UNCHANGED <<segments, cache, maxOpen, opened, active, ldbSegments, mu, MinMutableSegmentCount>>

\* s.Get(key) and the deferred ReleaseSegment (lines 281-282, 158-165).  A
\* detached LDBSegment either fails (closed) or still answers.
TGetRead(t, closed) ==
  /\ pc[t] = "Get_read"
  /\ closed => (frame[t].s.kind = "ldb" /\ frame[t].s.stale)
  /\ LET fr == frame[t]
         r == IF closed THEN [value |-> <<>>, err |-> "closed"] ELSE RefGet(fr.s, fr.key)
     IN Frames(t, AfterGet([fr EXCEPT !.s = NoRef], r), ldbSegments, {})
  /\ semaphore' = IF frame[t].s.kind = "file" THEN semaphore - 1 ELSE semaphore
  /\ UNCHANGED <<sdbVars, feedVars>>
  /\ evictCalls' = <<>>
  /\ UNCHANGED <<segments, cache, maxOpen, opened, active, ldbSegments, mu, MinMutableSegmentCount>>

\* Table.Delete lines 311-316: the type switch `case MutableSegment`.
\* (isAnySegment takes every segment for a mutable one; C11 depends on the
\* difference.)
isAnySegment(s) == TRUE

isMutableSegment(s) == s.kind = "ldb"

\* Table.Delete (lines 309-316): forwarded to a mutable segment, refused on
\* an immutable one; then the deferred ReleaseSegment (lines 158-165).
TDeleteApply(t, closed) ==
  /\ pc[t] = "Delete_apply"
  /\ closed => (frame[t].s.kind = "ldb" /\ frame[t].s.stale)
  /\ LET fr == frame[t] IN
     IF ~isMutableSegment(fr.s)
     THEN /\ ldbSegments' = ldbSegments
          /\ Frames(t, <<"idle", Return(fr, <<>>, ErrImmutableSegment, FALSE, FALSE)>>, ldbSegments, {})
     ELSE /\ ldbSegments' = IF fr.s.stale \/ fr.s.kind # "ldb" THEN ldbSegments
                            ELSE [ldbSegments EXCEPT ![fr.s.name].data = MapDelete(@, fr.key)]
          /\ Frames(t, <<"idle", Return(fr, <<>>, IF closed THEN "closed" ELSE NoError, FALSE, TRUE)>>,
                    ldbSegments, {})
  /\ semaphore' = IF frame[t].s.kind = "file" THEN semaphore - 1 ELSE semaphore
  /\ UNCHANGED <<sdbVars, feedVars>>
  /\ evictCalls' = <<>>
  /\ UNCHANGED <<segments, cache, maxOpen, opened, active, mu, MinMutableSegmentCount>>

\* CreateSegmentIfNotExists, line 235: `name < t.active`, which refuses the
\* creation of a mutable segment.  (The two variants compare the lengths
\* only, or never refuse; C6 and C7 depend on the difference.)
nameBelowActiveByLength(name, act) == Len(name) < Len(act)

nameBelowActiveNever(name, act) == FALSE

nameBelowActive(name, act) == StringLess(name, act)

\* A method that returns straight after a run of Table.compact also leaves
\* behind what the run met: the candidates it skipped as too young (line
\* 342) and the one whose Stat or CompactSegment failed (lines 340, 348).
WithRun(next, skipped, failed) ==
  IF next[1] = "idle" THEN <<"idle", next[2] @@ [young |-> skipped, failAt |-> failed]>> ELSE next

\* A direct call of Table.CreateSegmentIfNotExists(ctx, name).
TCreate(t, name) ==
  /\ opened
  /\ Idle(t)
  /\ Frames(t, <<"Create_fast", Call("Create", <<>>, <<>>, name, FALSE)>>, ldbSegments, {})
  /\ UNCHANGED <<sdbVars, feedVars>>
  /\ evictCalls' = <<>>
  /\ UNCHANGED <<ssVars, tblVars>>

\* CreateSegmentIfNotExists, lines 214-219: the check under the read lock.
TCreateFast(t) ==
  /\ pc[t] = "Create_fast"
  /\ mu = 0
  /\ IF frame[t].name \in DOMAIN ldbSegments
     THEN Frames(t, AfterCreate(frame[t], LdbRef(frame[t].name), NoError), ldbSegments, {})
     ELSE Frames(t, <<"Create_lock", frame[t]>>, ldbSegments, {})
  /\ UNCHANGED <<sdbVars, feedVars>>
  /\ evictCalls' = <<>>
  /\ UNCHANGED <<ssVars, tblVars>>

\* CreateSegmentIfNotExists, lines 221-256, under the write lock: the
\* recheck, the hand-over to uncompact (which keeps the lock), the
\* name < active refusal, or the creation followed by compact.
TCreateLock(t, openFails, young, failAt) ==
  /\ pc[t] = "Create_lock"
  /\ mu = 0
  /\ UNCHANGED <<sdbVars, feedVars>>
  /\ evictCalls' = <<>>
  /\ LET fr == frame[t] IN
     IF fr.name \in DOMAIN ldbSegments
     THEN /\ Frames(t, AfterCreate(fr, LdbRef(fr.name), NoError), ldbSegments, {})
          /\ UNCHANGED <<ssVars, tblVars>>
     ELSE IF fr.name \in DOMAIN segments
     THEN /\ mu' = t
          /\ Frames(t, <<"Uncompact_acquire", fr>>, ldbSegments, {})
          /\ UNCHANGED <<ssVars, opened, active, ldbSegments, MinMutableSegmentCount>>
     ELSE IF nameBelowActive(fr.name, active)
     THEN /\ Frames(t, AfterCreate(fr, NoRef, ErrImmutableSegment), ldbSegments, {})
          /\ UNCHANGED <<ssVars, tblVars>>
     ELSE IF openFails
     THEN /\ Frames(t, AfterCreate(fr, NoRef, "open"), ldbSegments, {})
          /\ UNCHANGED <<ssVars, tblVars>>
     ELSE LET created == MapPut(ldbSegments, fr.name, NewLDBSegment(fr.name))
              c == compact(created, segments, MinMutableSegmentCount, young, failAt)
          IN /\ ldbSegments' = c.ldb
             /\ segments' = c.segs
             /\ active' = fr.name
             /\ Frames(t, WithRun(AfterCreate(fr, IF c.err = NoError THEN LdbRef(fr.name) ELSE NoRef,
                                               c.err), c.skipped, c.failed),
                       created, (DOMAIN created) \ (DOMAIN c.ldb))
             /\ UNCHANGED <<semaphore, cache, maxOpen, opened, mu, MinMutableSegmentCount>>

\* Table.uncompact, lines 363-373: Acquire (waits for a permit, which the
\* deferred Release gives back when uncompact returns), UncompactSegment,
\* and the new mutable segment put into ldbSegments.
TUncompactAcquire(t, openFails, uncompactFails) ==
  /\ pc[t] = "Uncompact_acquire"
  /\ SemaphoreFree(semaphore, maxOpen)
  /\ LET fr == frame[t]
         a == Acquire(segments, cache, maxOpen, fr.name, openFails)
     IN /\ cache' = a.cache
        /\ UNCHANGED <<sdbVars, feedVars>>
        /\ evictCalls' = a.calls
        /\ IF a.seg = Nil \/ uncompactFails
           THEN /\ semaphore' = semaphore
                /\ mu' = 0
                /\ ldbSegments' = ldbSegments
                /\ Frames(t, AfterCreate(fr, NoRef, IF a.err # NoError THEN a.err ELSE "uncompact"),
                          ldbSegments, {})
           ELSE /\ semaphore' = semaphore + 1
                /\ mu' = mu
                /\ ldbSegments' = MapPut(ldbSegments, fr.name, UncompactSegment(a.seg))
                /\ Frames(t, <<"Uncompact_delete", fr>>, ldbSegments, {})
  /\ UNCHANGED <<segments, maxOpen, opened, active, MinMutableSegmentCount>>

\* Table.uncompact line 374, SegmentSet.Remove lines 82-84.
TUncompactDelete(t) ==
  /\ pc[t] = "Uncompact_delete"
  /\ segments' = remove(segments, frame[t].name)
  /\ Frames(t, <<"Uncompact_sem", frame[t]>>, ldbSegments, {})
  /\ UNCHANGED <<sdbVars, feedVars>>
  /\ evictCalls' = <<>>
  /\ UNCHANGED <<semaphore, cache, maxOpen, tblVars>>

\* SegmentSet.Remove lines 86-90 inside uncompact, then uncompact's return:
\* Remove waits for a second permit while uncompact still holds its own;
\* with the permit it drops the cached entry, on a done ctx it returns
\* early.  Then the deferred Release and Unlock run.  Put passes
\* context.TODO(), which is never done; only a direct caller's ctx can be.
TUncompactSem(t, cancelled) ==
  /\ pc[t] = "Uncompact_sem"
  /\ IF cancelled
     THEN /\ frame[t].op = "Create"
          /\ cache' = cache
          /\ UNCHANGED <<sdbVars, feedVars>>
          /\ evictCalls' = <<>>
     ELSE /\ SemaphoreFree(semaphore, maxOpen)
          /\ LET r == lruRemove(cache, frame[t].name) IN
             /\ cache' = r.cache
             /\ UNCHANGED <<sdbVars, feedVars>>
             /\ evictCalls' = onEvictedAll(segments, r.evicted)
  /\ semaphore' = semaphore - 1
  /\ mu' = 0
  /\ Frames(t, AfterCreate(frame[t], LdbRef(frame[t].name), NoError), ldbSegments, {})
  /\ UNCHANGED <<segments, maxOpen, opened, active, ldbSegments, MinMutableSegmentCount>>

\* Table.Put line 298: s.Put(key, value) on the segment
\* CreateSegmentIfNotExists returned, with no table lock held.  A detached
\* LDBSegment either fails (closed) or takes the write, which no reader of
\* the table will see.
TPutWrite(t, closed) ==
  /\ pc[t] = "Put_write"
  /\ closed => frame[t].s.stale
  /\ LET fr == frame[t] IN
     /\ ldbSegments' = IF fr.s.stale THEN ldbSegments
                       ELSE [ldbSegments EXCEPT ![fr.s.name].data = MapPut(@, fr.key, fr.value)]
     /\ Frames(t, <<"idle", Return(fr, fr.value, IF closed THEN "closed" ELSE NoError, TRUE, TRUE)>>,
               ldbSegments, {})
  /\ UNCHANGED <<sdbVars, feedVars>>
  /\ evictCalls' = <<>>
  /\ UNCHANGED <<ssVars, opened, active, mu, MinMutableSegmentCount>>

\* Table.Compact (lines 324-328).
TCompact(t, young, failAt) ==
  /\ opened
  /\ Idle(t)
  /\ mu = 0
  /\ LET c == compact(ldbSegments, segments, MinMutableSegmentCount, young, failAt) IN
     /\ ldbSegments' = c.ldb
     /\ segments' = c.segs
     /\ Frames(t, WithRun(<<"idle", Return(Call("Compact", <<>>, <<>>, <<>>, FALSE), <<>>, c.err,
                                          FALSE, FALSE)>>, c.skipped, c.failed),
               ldbSegments, (DOMAIN ldbSegments) \ (DOMAIN c.ldb))
  /\ UNCHANGED <<sdbVars, feedVars>>
  /\ evictCalls' = <<>>
  /\ UNCHANGED <<semaphore, cache, maxOpen, opened, active, mu, MinMutableSegmentCount>>

Init ==
  /\ \E maxOpenCount \in 0..MaxOpenBound : maxOpen = NewSegmentSet(maxOpenCount)
  /\ MinMutableSegmentCount \in 0..MaxMinMutable
  /\ segments = EmptyMap
  /\ semaphore = 0
  /\ cache = <<>>
  /\ evictCalls = <<>>
  /\ pc = [t \in Threads |-> "idle"]
  /\ frame = [t \in Threads |-> NoCall]
  /\ ret = NoReturn
  /\ opened = FALSE
  /\ active = <<>>
  /\ ldbSegments = EmptyMap
  /\ mu = 0
  /\ batches = EmptyMap
  /\ FeedIdle
  /\ stateDBs = <<>>
  /\ codeBlobs = {}
  /\ dbret = [op |-> "none"]
  /\ atSnapshot = EmptyMap

\* One step of thread t, its keys drawn from K, its values from V and the
\* segment names it names itself from N.
TStep(t, K, V, N) ==
  \/ \E key \in K, openFails \in BOOLEAN : TGet(t, key, openFails)
  \/ \E key \in K, value \in V, openFails \in BOOLEAN : TPut(t, key, value, openFails)
  \/ \E key \in K, openFails \in BOOLEAN : TDelete(t, key, openFails)
  \/ \E closed \in BOOLEAN : TGetRead(t, closed)
  \/ \E closed \in BOOLEAN : TDeleteApply(t, closed)
  \/ \E name \in N : TCreate(t, name)
  \/ TCreateFast(t)
  \/ \E openFails \in BOOLEAN, young \in SUBSET (DOMAIN ldbSegments),
          failAt \in (DOMAIN ldbSegments) \cup {<<>>} :
       TCreateLock(t, openFails, young, failAt)
  \/ \E openFails \in BOOLEAN, uncompactFails \in BOOLEAN : TUncompactAcquire(t, openFails, uncompactFails)
  \/ TUncompactDelete(t)
  \/ \E cancelled \in BOOLEAN : TUncompactSem(t, cancelled)
  \/ \E closed \in BOOLEAN : TPutWrite(t, closed)
  \/ \E young \in SUBSET (DOMAIN ldbSegments), failAt \in (DOMAIN ldbSegments) \cup {<<>>} :
       TCompact(t, young, failAt)

TOpenAny(N) == \E ldbNames \in SUBSET N, fileNames \in SUBSET N : TOpen(ldbNames, fileNames)

\* Concurrent threads on the table, all working on one key and two segments.
Next == TOpenAny({<<1>>, <<2>>}) \/ \E t \in Threads : TStep(t, {<<1, 7>>}, {<<5>>}, {<<1>>, <<2>>})

Spec == Init /\ [][Next]_vars

\* One thread alone on the table.
NextSeq == TOpenAny(Names) \/ TStep(1, Keys, Values, Names)

SpecSeq == Init /\ [][NextSeq]_vars

\* -------------------------------------------------------------- tableBatch
\* One operation of a sub-batch: a put of (key, value) or a delete of key.
BatchOp(key, value, del) == [key |-> key, value |-> value, del |-> del]

\* The operations the sub-batch of a name holds.
SubBatchLen(b, name) == IF name \in DOMAIN b THEN Len(b[name].ops) ELSE 0

\* ldbSegmentBatch.Write: the operations applied in order to the content of
\* the LDBSegment the sub-batch was made from.
RECURSIVE ApplyOps(_, _)
ApplyOps(data, ops) ==
  IF ops = <<>> THEN data
  ELSE ApplyOps(IF Head(ops).del THEN MapDelete(data, Head(ops).key)
                ELSE MapPut(data, Head(ops).key, Head(ops).value), Tail(ops))

\* tableBatch.Put, line 389: starts with Table.Get.
TBatchPut(t, key, value, openFails) ==
  /\ SubBatchLen(batches, Partition(key)) < MaxBatchOps
  /\ TAcquireSegment(t, Call("BatchPut", key, value, Partition(key), FALSE), openFails)

\* tableBatch.Delete, line 416: starts with Table.Get.
TBatchDelete(t, key, openFails) ==
  /\ SubBatchLen(batches, Partition(key)) < MaxBatchOps
  /\ TAcquireSegment(t, Call("BatchDelete", key, <<>>, Partition(key), FALSE), openFails)

\* tableBatch.Put lines 402-411, tableBatch.Delete lines 429-437: the name's
\* sub-batch, made from the segment CreateSegmentIfNotExists returned when
\* the batch has none for the name yet, takes the operation.
TBatchAdd(t) ==
  /\ pc[t] = "Batch_add"
  /\ LET fr == frame[t]
         sb == IF fr.name \in DOMAIN batches THEN batches[fr.name] ELSE [s |-> fr.s, ops |-> <<>>]
         op == BatchOp(fr.key, fr.value, fr.op = "BatchDelete")
     IN /\ batches' = MapPut(batches, fr.name, [sb EXCEPT !.ops = Append(@, op)])
        /\ pc' = [pc EXCEPT ![t] = "idle"]
        /\ frame' = [frame EXCEPT ![t] = NoCall]
        /\ ret' = [thread |-> t] @@ Return(fr, fr.value, NoError, TRUE, FALSE)
  /\ UNCHANGED <<sdbVars, feedVars>>
  /\ evictCalls' = <<>>
  /\ UNCHANGED <<ssVars, tblVars>>

\* tableBatch.Write, lines 440-447, started: the sub-batches still to write.
TBatchWrite(t) ==
  /\ opened
  /\ Idle(t)
  /\ batches # EmptyMap
  /\ pc' = [pc EXCEPT ![t] = "Batch_write"]
  /\ frame' = [frame EXCEPT ![t] = [Call("BatchWrite", <<>>, <<>>, <<>>, FALSE) EXCEPT !.key = DOMAIN batches]]
  /\ ret' = NoReturn
  /\ UNCHANGED <<sdbVars, feedVars>>
  /\ evictCalls' = <<>>
  /\ UNCHANGED <<ssVars, tblVars, batches>>

\* One round of the loop of tableBatch.Write: sb.Write() of a sub-batch, in
\* the map's iteration order (any).  A sub-batch of a detached LDBSegment
\* either fails (closed), which ends Write, or writes where no reader of the
\* table will see it: nothing reads a detached LDBSegment through a batch, so
\* its content is not kept.
TBatchWriteOne(t, name, closed) ==
  /\ pc[t] = "Batch_write"
  /\ name \in frame[t].key
  /\ closed => batches[name].s.stale
  /\ LET sb == batches[name]
         rest == frame[t].key \ {name}
     IN /\ ldbSegments' = IF sb.s.stale THEN ldbSegments
                          ELSE [ldbSegments EXCEPT ![name].data = ApplyOps(@, sb.ops)]
        /\ batches' = batches
        /\ IF closed \/ rest = {}
           THEN /\ pc' = [pc EXCEPT ![t] = "idle"]
                /\ frame' = [frame EXCEPT ![t] = NoCall]
                /\ ret' = [thread |-> t] @@
                          Return(Call("BatchWrite", <<>>, <<>>, <<>>, FALSE), <<>>,
                                 IF closed THEN "closed" ELSE NoError, FALSE, TRUE)
           ELSE /\ pc' = pc
                /\ frame' = [frame EXCEPT ![t].key = rest]
                /\ ret' = NoReturn
  /\ UNCHANGED <<sdbVars, feedVars>>
  /\ evictCalls' = <<>>
  /\ UNCHANGED <<ssVars, opened, active, mu, MinMutableSegmentCount>>

\* tableBatch.Reset, lines 453-458: every sub-batch is emptied and kept.
TBatchReset(t) ==
  /\ opened
  /\ Idle(t)
  /\ batches # EmptyMap
  /\ batches' = [n \in DOMAIN batches |-> [batches[n] EXCEPT !.ops = <<>>]]
  /\ ret' = [thread |-> t] @@ Return(Call("BatchReset", <<>>, <<>>, <<>>, FALSE), <<>>, NoError, FALSE, FALSE)
  /\ UNCHANGED <<sdbVars, feedVars>>
  /\ evictCalls' = <<>>
  /\ UNCHANGED <<ssVars, tblVars, pc, frame>>

\* One step of the owner of the batch.
BStep(t, K, V) ==
  \/ \E key \in K, value \in V, openFails \in BOOLEAN : TBatchPut(t, key, value, openFails)
  \/ \E key \in K, openFails \in BOOLEAN : TBatchDelete(t, key, openFails)
  \/ TBatchAdd(t)
  \/ TBatchWrite(t)
  \/ \E name \in Names, closed \in BOOLEAN : TBatchWriteOne(t, name, closed)
  \/ TBatchReset(t)

\* One thread that also fills and writes a batch; the batch works on both
\* keys, the thread's direct calls on one.
NextBatch ==
  \/ TOpenAny({<<1>>, <<2>>})
  \/ TStep(1, {<<1, 7>>}, {<<5>>}, {<<1>>, <<2>>})
  \/ BStep(1, Keys, {<<5>>})

SpecBatch == Init /\ [][NextBatch]_vars

\* ================================================================= claims
\* Table.Get(key) as it would return in the current state, every segment
\* opening without error (lines 273-283, 147-155, 96-125).
GetValue(key) ==
  LET name == Partition(key) IN
  IF name \in DOMAIN ldbSegments THEN ldbGet(ldbSegments[name].data, key)
  ELSE LET a == Acquire(segments, cache, maxOpen, name, FALSE) IN
       IF a.seg = Nil THEN [value |-> <<>>, err |-> a.err]
       ELSE fileGet(a.seg.data, key)

\* C1: whenever the table write lock is not held, no segment name is both a
\* key of ldbSegments and a member of the SegmentSet universe.
C1_TiersDisjoint == mu = 0 => (DOMAIN ldbSegments) \cap (DOMAIN segments) = {}

\* C1 witness: a Put has returned nil after going through
\* CreateSegmentIfNotExists, its segment is mutable and below active, and
\* another name is immutable.
C1_Witness ==
  /\ mu = 0
  /\ ret.op = "Put"
  /\ ret.err = NoError
  /\ ret.created
  /\ ret.name \in DOMAIN ldbSegments
  /\ StringLess(ret.name, active)
  /\ DOMAIN segments # {}

\* C2: when an Acquire makes the cache evict an entry, the eviction callback
\* is not invoked (Close or Purge) on a segment that another caller got from
\* Acquire and has not released yet.
C2_EvictedNotHeld ==
  \A i \in 1..Len(evictCalls) : \A t \in DOMAIN pc, u \in DOMAIN pc :
    ~( /\ t # u
       /\ Holding(u)
       /\ frame[u].seg.name # evictCalls[i]
       /\ Holding(t)
       /\ frame[t].seg.name = evictCalls[i] )

\* C3: a Put whose segment is in the immutable universe returns: when it
\* waits in uncompact for SegmentSet.Remove's permit and no other thread
\* holds a permit, a permit is free.
C3_RemoveGetsPermit ==
  \A t \in DOMAIN pc :
    (pc[t] = "Uncompact_sem" /\ frame[t].op = "Put" /\ semaphore = 1)
      => SemaphoreFree(semaphore, maxOpen)

\* C4: with MinMutableSegmentCount >= 1, no Put forwards its write to a
\* mutable segment object that has been compacted and removed from
\* ldbSegments.
C4_NoWriteAfterCompaction ==
  MinMutableSegmentCount >= 1 =>
    \A t \in DOMAIN pc : pc[t] = "Put_write" => ~frame[t].s.stale

\* C5: whenever the write lock is free and active is non-empty, ldbSegments
\* contains the name active.
C5_ActiveIsMutable ==
  (opened /\ mu = 0 /\ active # <<>>) => active \in DOMAIN ldbSegments

\* C6: active never becomes lexicographically smaller than it was.
C6_ActiveMonotonic == [][~StringLess(active', active)]_vars

\* C6 witness: CreateSegmentIfNotExists has returned the active segment
\* while a smaller name, written to and compacted since Open, is immutable.
C6_Witness ==
  /\ ret.op = "Create"
  /\ ret.err = NoError
  /\ ret.name = active
  /\ \E n \in DOMAIN segments : StringLess(n, active) /\ segments[n].data # <<>>

\* C7: CreateSegmentIfNotExists(name) under the write lock with name < active,
\* name not in ldbSegments and not in the universe returns
\* ErrImmutableSegment and leaves active, ldbSegments and the universe
\* unchanged; and after Open a name below active only enters ldbSegments in
\* uncompact.
C7_BelowActiveRefused ==
  [][ /\ \A t \in DOMAIN pc :
           ( /\ pc[t] = "Create_lock"
             /\ pc'[t] # "Create_lock"
             /\ frame[t].name \notin DOMAIN ldbSegments
             /\ frame[t].name \notin DOMAIN segments
             /\ StringLess(frame[t].name, active) )
           => ( /\ ret'.op # "none"
                /\ ret'.thread = t
                /\ ret'.err = ErrImmutableSegment
                /\ active' = active
                /\ ldbSegments' = ldbSegments
                /\ segments' = segments )
      /\ \A n \in Names :
           ( /\ opened
             /\ n \notin DOMAIN ldbSegments
             /\ n \in DOMAIN ldbSegments'
             /\ StringLess(n, active') )
           => \E t \in DOMAIN pc : pc[t] = "Uncompact_acquire" /\ frame[t].name = n
    ]_vars

\* C7 witness: a Put was refused with ErrImmutableSegment: its segment is
\* below active and in neither tier.
C7_Witness ==
  /\ ret.op = "Put"
  /\ ret.err = ErrImmutableSegment
  /\ StringLess(ret.name, active)
  /\ ret.name \notin DOMAIN ldbSegments
  /\ ret.name \notin DOMAIN segments

\* C8: the outstanding semaphore permits never exceed maxOpen, and the LRU
\* cache never holds more than maxOpen entries.
C8_Bounded == semaphore <= maxOpen /\ Len(cache) <= maxOpen

\* C8 witness: every permit is out, the cache is full and an Acquire has
\* just made the cache evict an entry.
C8_Witness ==
  /\ maxOpen = MaxOpenBound
  /\ semaphore = maxOpen
  /\ Len(cache) = maxOpen
  /\ evictCalls # <<>>

\* C9: if Put(k, v) has returned nil, the immediately following Get(k)
\* returns v.
C9_PutThenGet ==
  (ret.op = "Put" /\ ret.err = NoError) => bytesEqual(GetValue(ret.key).value, ret.value)

\* C10: a Put(k, v) that immediately follows a Put(k, v) which returned nil
\* returns nil without calling CreateSegmentIfNotExists and without writing
\* (a Put that fails because a segment file cannot be opened aside).
C10_SecondPutNoOp ==
  (ret.op = "Put" /\ ret.again /\ ret.err # "open")
    => (ret.err = NoError /\ ~ret.created /\ ~ret.wrote)

\* C11: Table.Delete(k) on a key whose segment is only in the immutable tier
\* acquires that segment with one permit (or returns the error of opening
\* it), returns ErrImmutableSegment without writing, without touching the
\* write lock, ldbSegments, the universe or the value stored for k, and gives
\* the permit back; on a mutable segment the delete is forwarded and k is
\* gone from it.
C11_DeleteImmutable ==
  [][\A t \in DOMAIN pc :
       /\ ( /\ pc[t] = "idle"
            /\ pc'[t] # "idle"
            /\ frame'[t].op = "Delete"
            /\ frame'[t].name \notin DOMAIN ldbSegments )
          => ( /\ frame'[t].name \in DOMAIN segments
               /\ pc'[t] = "Delete_apply"
               /\ frame'[t].s.kind = "file"
               /\ semaphore' = semaphore + 1
               /\ UNCHANGED <<ldbSegments, segments, mu>> )
       /\ ( /\ pc[t] = "idle"
            /\ pc'[t] = "idle"
            /\ ret'.op = "Delete"
            /\ ret'.thread = t
            /\ ret'.name \in (DOMAIN segments) \ (DOMAIN ldbSegments) )
          => ( /\ ret'.err = "open"
               /\ UNCHANGED <<semaphore, ldbSegments, segments, mu>> )
       /\ ( /\ pc[t] = "Delete_apply"
            /\ pc'[t] = "idle"
            /\ frame[t].s.kind = "file" )
          => ( /\ ret'.op = "Delete"
               /\ ret'.err = ErrImmutableSegment
               /\ ~ret'.wrote
               /\ semaphore' = semaphore - 1
               /\ \A k \in Keys : GetValue(k)' = GetValue(k)
               /\ UNCHANGED <<ldbSegments, segments, mu>> )
       /\ ( /\ pc[t] = "Delete_apply"
            /\ pc'[t] = "idle"
            /\ frame[t].s.kind = "ldb"
            /\ ret'.err = NoError )
          => ( /\ frame[t].key \notin DOMAIN ldbSegments'[frame[t].name].data
               /\ semaphore' = semaphore
               /\ UNCHANGED <<segments, mu>> )
    ]_vars

\* C11 witness: a Delete has been refused with ErrImmutableSegment, the key
\* is still stored in its immutable segment and no permit is out.
C11_Witness ==
  /\ ret.op = "Delete"
  /\ ret.err = ErrImmutableSegment
  /\ ret.name \in (DOMAIN segments) \ (DOMAIN ldbSegments)
  /\ GetValue(ret.key).err = NoError
  /\ semaphore = 0

\* C12: a run of compaction (Compact, or the one in a direct
\* CreateSegmentIfNotExists that creates its segment) leaves the
\* MinMutableSegmentCount greatest-named mutable segments untouched, skips
\* every candidate too young to compact, and moves every other candidate, in
\* ascending name order up to the first one that fails, from ldbSegments to
\* the universe with its content; it returns nil exactly when none failed.
C12_CompactionRun ==
  [][ ( /\ ret'.op \in {"Compact", "Create"}
        /\ "young" \in DOMAIN ret' )
      => LET names == IF ret'.op = "Compact" THEN DOMAIN ldbSegments
                      ELSE (DOMAIN ldbSegments) \cup {ret'.name}
             keep == {n \in names :
                        Cardinality({m \in names : StringLess(n, m)}) < MinMutableSegmentCount}
             cands == names \ keep
             failed == ret'.failAt # <<>>
             moved == {n \in cands : /\ n \notin ret'.young
                                     /\ failed => StringLess(n, ret'.failAt)}
         IN /\ ret'.young \subseteq cands
            /\ failed => ret'.failAt \in cands
            /\ DOMAIN ldbSegments' = names \ moved
            /\ \A n \in (names \ moved) \cap DOMAIN ldbSegments : ldbSegments'[n] = ldbSegments[n]
            /\ DOMAIN segments' = (DOMAIN segments) \cup moved
            /\ \A n \in (DOMAIN segments) \ moved : segments'[n] = segments[n]
            /\ \A n \in moved \cap DOMAIN ldbSegments :
                 /\ segments'[n].name = n
                 /\ {segments'[n].data[i] : i \in 1..Len(segments'[n].data)}
                      = {<<k, ldbSegments[n].data[k]>> : k \in DOMAIN ldbSegments[n].data}
            /\ (ret'.err = NoError) <=> ~failed
    ]_vars

\* C12 witness: Compact has returned nil having skipped a young candidate,
\* with a compacted segment that holds data and a mutable segment left.
C12_Witness ==
  /\ ret.op = "Compact"
  /\ ret.err = NoError
  /\ MinMutableSegmentCount = 1
  /\ \E n \in ret.young : n \in DOMAIN ldbSegments /\ n # active
  /\ \E n \in DOMAIN segments : segments[n].data # <<>>
  /\ active \in DOMAIN ldbSegments

\* ==================================================== StateDB (package state)
\* ---------------------------------------------------------------- bounds
MaxBalance == 1
MaxJournal == 3
MaxRevisions == 2
MaxRefund == 1
MaxLogs == 3
MaxCounterLogs == 1
MaxDBs == 3

\* Account addresses, storage keys, 32-byte words (0 is common.Hash{}),
\* contract codes (<<>> is Go's nil) and transaction hashes.
Addrs == {1, 2}

Slots == {1}

Words == {0, 1}

Codes == {<<>>, <<1>>}

\* crypto.Keccak256Hash and trie.Hash: collision-free digests of what they hash.
Keccak256Hash(code) == [keccak |-> code]

TrieHash(content) == [kind |-> "hash", root |-> content]

emptyState == TrieHash(EmptyMap)

emptyCode == Keccak256Hash(<<>>)

\* The root Commit returns next to an error.
ZeroHash == [kind |-> "zero"]

\* ------------------------------------------------------------ stateObject
\* Account is the record the account trie stores; the root of a storage trie
\* stands for the slots the trie holds.
Account(nonce, balance, root, codeHash) ==
  [Nonce |-> nonce, Balance |-> balance, Root |-> root, CodeHash |-> codeHash]

\* newObject(db, address, Account{}) fills in the empty code hash.
EmptyAccount == Account(0, 0, emptyState, emptyCode)

\* newObject: `trie` holds the slots of the account's storage trie.
newObject(addr, data) ==
  [address |-> addr, data |-> data, code |-> <<>>, dirtyCode |-> FALSE,
   trie |-> data.Root.root, dirtyStorage |-> EmptyMap,
   suicided |-> FALSE, deleted |-> FALSE]

\* stateObject.empty
empty(obj) ==
  obj.data.Nonce = 0 /\ obj.data.Balance = 0 /\ obj.data.CodeHash = emptyCode

\* stateObject.Code: the cached code, or the blob of the code hash.
Code(obj, blobs) ==
  IF obj.code # <<>> THEN obj.code
  ELSE IF obj.data.CodeHash = emptyCode THEN <<>>
  ELSE IF obj.data.CodeHash.keccak \in blobs THEN obj.data.CodeHash.keccak
  ELSE <<>>

\* stateObject.GetCommittedState and stateObject.GetState.
objGetCommittedState(obj, key) == IF key \in DOMAIN obj.trie THEN obj.trie[key] ELSE 0

objGetState(obj, key) ==
  IF key \in DOMAIN obj.dirtyStorage THEN obj.dirtyStorage[key]
  ELSE objGetCommittedState(obj, key)

\* stateObject.updateTrie: every dirty slot goes to the storage trie, a zero
\* value deletes the slot.
updateTrie(obj) ==
  [obj EXCEPT !.trie =
     [k \in {x \in (DOMAIN obj.trie) \cup (DOMAIN obj.dirtyStorage) : objGetState(obj, x) # 0}
        |-> objGetState(obj, k)]]

\* stateObject.updateRoot (and CommitTrie, which differs only in what it
\* writes to the trie database).
updateRoot(obj) ==
  LET o == updateTrie(obj) IN [o EXCEPT !.data.Root = TrieHash(o.trie)]

\* stateObject.MarshalRLP: the record the account trie stores.
MarshalRLP(obj) == obj.data

\* ---------------------------------------------------------------- journal
\* The address an entry dirties: the account it captures, if any.
NoAddr == 0

dirtied(entry) == IF "account" \in DOMAIN entry THEN entry.account ELSE NoAddr

\* journal.dirties
dirties(journal) == {dirtied(journal[i]) : i \in DOMAIN journal} \ {NoAddr}

\* ---------------------------------------------------------------- StateDB
\* New: a StateDB over the account trie `trie` (address -> Account).
NewStateDB(trie) ==
  [trie |-> trie, stateObjects |-> EmptyMap, stateObjectsDirty |-> {},
   refund |-> 0, thash |-> 0, logs |-> EmptyMap, logSize |-> 0,
   preimages |-> EmptyMap, journal |-> <<>>, validRevisions |-> <<>>,
   nextRevisionId |-> 0]

setStateObject(s, object) ==
  [s EXCEPT !.stateObjects = MapPut(@, object.address, object)]

\* getStateObject: the live object (nil when it is deleted), else the
\* account of the trie, which joins the live set.  `db` is the StateDB after
\* the call, `obj` the object returned.
getStateObject(s, addr) ==
  IF addr \in DOMAIN s.stateObjects
  THEN [db |-> s, obj |-> IF s.stateObjects[addr].deleted THEN Nil ELSE s.stateObjects[addr]]
  ELSE IF addr \in DOMAIN s.trie
  THEN LET obj == newObject(addr, s.trie[addr])
       IN [db |-> setStateObject(s, obj), obj |-> obj]
  ELSE [db |-> s, obj |-> Nil]

append(s, entry) == [s EXCEPT !.journal = Append(@, entry)]

\* createObject: `prev` is the object the new one replaces.
createObject(s, addr) ==
  LET g == getStateObject(s, addr)
      newobj == newObject(addr, EmptyAccount)
      entry == IF g.obj = Nil THEN [kind |-> "createObject", account |-> addr]
               ELSE [kind |-> "resetObject", prev |-> g.obj]
  IN [db |-> setStateObject(append(g.db, entry), newobj), obj |-> newobj, prev |-> g.obj]

GetOrNewStateObject(s, addr) ==
  LET g == getStateObject(s, addr)
  IN IF g.obj = Nil THEN createObject(g.db, addr) ELSE g

\* stateObject.touch
touch(s, addr) == append(s, [kind |-> "touch", account |-> addr])

\* stateObject.SetBalance
objSetBalance(s, addr, amount) ==
  LET obj == s.stateObjects[addr]
  IN [append(s, [kind |-> "balance", account |-> addr, prev |-> obj.data.Balance])
        EXCEPT !.stateObjects[addr].data.Balance = amount]

\* StateDB.AddBalance with stateObject.AddBalance: a zero amount touches an
\* empty object and changes nothing else.
AddBalance(s, addr, amount) ==
  LET g == GetOrNewStateObject(s, addr)
  IN IF amount = 0 THEN (IF empty(g.obj) THEN touch(g.db, addr) ELSE g.db)
     ELSE objSetBalance(g.db, addr, g.obj.data.Balance + amount)

\* StateDB.SubBalance with stateObject.SubBalance.
SubBalance(s, addr, amount) ==
  LET g == GetOrNewStateObject(s, addr)
  IN IF amount = 0 THEN g.db
     ELSE objSetBalance(g.db, addr, g.obj.data.Balance - amount)

SetBalance(s, addr, amount) ==
  objSetBalance(GetOrNewStateObject(s, addr).db, addr, amount)

\* StateDB.SetNonce with stateObject.SetNonce.
SetNonce(s, addr, nonce) ==
  LET g == GetOrNewStateObject(s, addr)
  IN [append(g.db, [kind |-> "nonce", account |-> addr, prev |-> g.obj.data.Nonce])
        EXCEPT !.stateObjects[addr].data.Nonce = nonce]

\* stateObject.setCode
setCode(obj, codeHash, code) ==
  [obj EXCEPT !.code = code, !.data.CodeHash = codeHash, !.dirtyCode = TRUE]

\* StateDB.SetCode with stateObject.SetCode.
SetCode(s, addr, code, blobs) ==
  LET g == GetOrNewStateObject(s, addr)
  IN [append(g.db, [kind |-> "code", account |-> addr, prevhash |-> g.obj.data.CodeHash,
                    prevcode |-> Code(g.obj, blobs)])
        EXCEPT !.stateObjects[addr] = setCode(g.obj, Keccak256Hash(code), code)]

\* StateDB.SetState with stateObject.SetState.
SetState(s, addr, key, value) ==
  LET g == GetOrNewStateObject(s, addr)
  IN [append(g.db, [kind |-> "storage", account |-> addr, key |-> key,
                    prevalue |-> objGetState(g.obj, key)])
        EXCEPT !.stateObjects[addr].dirtyStorage = MapPut(@, key, value)]

\* Suicide journalling the balance it has already cleared.
SuicideJournalsLate(s, addr) ==
  LET g == getStateObject(s, addr)
  IN IF g.obj = Nil THEN [db |-> g.db, ok |-> FALSE]
     ELSE [db |-> [append(g.db, [kind |-> "suicide", account |-> addr,
                                 prev |-> g.obj.suicided, prevbalance |-> 0])
                     EXCEPT !.stateObjects[addr].suicided = TRUE,
                            !.stateObjects[addr].data.Balance = 0],
           ok |-> TRUE]

\* Suicide: `ok` is the boolean returned.
Suicide(s, addr) ==
  LET g == getStateObject(s, addr)
  IN IF g.obj = Nil THEN [db |-> g.db, ok |-> FALSE]
     ELSE [db |-> [append(g.db, [kind |-> "suicide", account |-> addr,
                                 prev |-> g.obj.suicided,
                                 prevbalance |-> g.obj.data.Balance])
                     EXCEPT !.stateObjects[addr].suicided = TRUE,
                            !.stateObjects[addr].data.Balance = 0],
           ok |-> TRUE]

\* CreateAccount: the balance of the object replaced is carried over.
CreateAccount(s, addr) ==
  LET c == createObject(s, addr)
  IN IF c.prev # Nil
     THEN [c.db EXCEPT !.stateObjects[addr].data.Balance = c.prev.data.Balance]
     ELSE c.db

\* AddLog numbering a log within its transaction instead of within the block.
AddLogIndexInTx(s) ==
  LET j == append(s, [kind |-> "addLog", txhash |-> s.thash])
      log == [TxHash |-> s.thash,
              Index |-> IF s.thash \in DOMAIN s.logs THEN Len(s.logs[s.thash]) ELSE 0]
  IN [j EXCEPT !.logs = MapPut(@, s.thash, IF s.thash \in DOMAIN s.logs
                                              THEN Append(s.logs[s.thash], log)
                                              ELSE <<log>>),
               !.logSize = @ + 1]

\* AddLog: the log carries the transaction hash and its index in the block.
AddLog(s) ==
  LET j == append(s, [kind |-> "addLog", txhash |-> s.thash])
      log == [TxHash |-> s.thash, Index |-> s.logSize]
  IN [j EXCEPT !.logs = MapPut(@, s.thash, IF s.thash \in DOMAIN s.logs
                                              THEN Append(s.logs[s.thash], log)
                                              ELSE <<log>>),
               !.logSize = @ + 1]

AddPreimage(s, hash, preimage) ==
  IF hash \in DOMAIN s.preimages THEN s
  ELSE [append(s, [kind |-> "addPreimage", hash |-> hash])
          EXCEPT !.preimages = MapPut(@, hash, preimage)]

AddRefund(s, gas) ==
  [append(s, [kind |-> "refund", prev |-> s.refund]) EXCEPT !.refund = @ + gas]

\* SubRefund journals the change first and panics when gas exceeds the counter.
SubRefund(s, gas) ==
  LET j == append(s, [kind |-> "refund", prev |-> s.refund])
  IN IF gas > s.refund THEN [db |-> j, panic |-> TRUE]
     ELSE [db |-> [j EXCEPT !.refund = @ - gas], panic |-> FALSE]

Prepare(s, thash) == [s EXCEPT !.thash = thash]

\* The revert of one journal entry.
revertEntry(s, e) ==
  CASE e.kind = "createObject" ->
         [s EXCEPT !.stateObjects = MapDelete(@, e.account),
                   !.stateObjectsDirty = @ \ {e.account}]
    [] e.kind = "resetObject" -> setStateObject(s, e.prev)
    [] e.kind = "suicide" ->
         [s EXCEPT !.stateObjects[e.account].suicided = e.prev,
                   !.stateObjects[e.account].data.Balance = e.prevbalance]
    [] e.kind = "balance" -> [s EXCEPT !.stateObjects[e.account].data.Balance = e.prev]
    [] e.kind = "nonce" -> [s EXCEPT !.stateObjects[e.account].data.Nonce = e.prev]
    [] e.kind = "storage" ->
         [s EXCEPT !.stateObjects[e.account].dirtyStorage = MapPut(@, e.key, e.prevalue)]
    [] e.kind = "code" ->
         [s EXCEPT !.stateObjects[e.account] = setCode(@, e.prevhash, e.prevcode)]
    [] e.kind = "refund" -> [s EXCEPT !.refund = e.prev]
    [] e.kind = "addLog" ->
         [s EXCEPT !.logs = IF Len(@[e.txhash]) = 1 THEN MapDelete(@, e.txhash)
                            ELSE MapPut(@, e.txhash, SubSeq(@[e.txhash], 1, Len(@[e.txhash]) - 1)),
                   !.logSize = @ - 1]
    [] e.kind = "addPreimage" -> [s EXCEPT !.preimages = MapDelete(@, e.hash)]
    [] e.kind = "touch" -> s

\* journal.revert: the entries above `snapshot` are undone, the last first.
RECURSIVE journalRevert(_, _)
journalRevert(s, snapshot) ==
  IF Len(s.journal) <= snapshot THEN s
  ELSE LET e == s.journal[Len(s.journal)]
           undone == revertEntry(s, e)
       IN journalRevert([undone EXCEPT !.journal = SubSeq(s.journal, 1, Len(s.journal) - 1)],
                        snapshot)

\* Snapshot: `id` is the identifier returned.
Snapshot(s) ==
  [db |-> [s EXCEPT !.nextRevisionId = @ + 1,
                    !.validRevisions = Append(@, [id |-> s.nextRevisionId,
                                                  journalIndex |-> Len(s.journal)])],
   id |-> s.nextRevisionId]

\* sort.Search over validRevisions: the first index whose id is >= revid,
\* Len + 1 when there is none.
searchRevision(revisions, revid) ==
  LET hits == {i \in DOMAIN revisions : revisions[i].id >= revid}
  IN IF hits = {} THEN Len(revisions) + 1
     ELSE CHOOSE i \in hits : \A j \in hits : i <= j

\* RevertToSnapshot cutting validRevisions after the revision it reverts to.
RevertToSnapshotKeepsId(s, revid) ==
  LET idx == searchRevision(s.validRevisions, revid)
  IN IF idx = Len(s.validRevisions) + 1 \/ s.validRevisions[idx].id # revid
     THEN [db |-> s, panic |-> TRUE]
     ELSE [db |-> [journalRevert(s, s.validRevisions[idx].journalIndex)
                     EXCEPT !.validRevisions = SubSeq(s.validRevisions, 1, idx)],
           panic |-> FALSE]

\* RevertToSnapshot.
RevertToSnapshot(s, revid) ==
  LET idx == searchRevision(s.validRevisions, revid)
  IN IF idx = Len(s.validRevisions) + 1 \/ s.validRevisions[idx].id # revid
     THEN [db |-> s, panic |-> TRUE]
     ELSE [db |-> [journalRevert(s, s.validRevisions[idx].journalIndex)
                     EXCEPT !.validRevisions = SubSeq(s.validRevisions, 1, idx - 1)],
           panic |-> FALSE]

\* clearJournalAndRefund leaving the revisions, and leaving the refund.
clearJournalKeepsRevisions(s) == [s EXCEPT !.journal = <<>>, !.refund = 0]

clearJournalKeepsRefund(s) == [s EXCEPT !.journal = <<>>, !.validRevisions = <<>>]

clearJournalAndRefund(s) ==
  [s EXCEPT !.journal = <<>>, !.validRevisions = <<>>, !.refund = 0]

\* updateStateObject and deleteStateObject, on the live object of addr.
updateStateObject(s, addr) ==
  [s EXCEPT !.trie = MapPut(@, addr, MarshalRLP(s.stateObjects[addr]))]

\* deleteStateObject marking the object and leaving its trie entry.
deleteStateObjectMarksOnly(s, addr) ==
  [s EXCEPT !.stateObjects[addr].deleted = TRUE]

deleteStateObject(s, addr) ==
  [s EXCEPT !.stateObjects[addr].deleted = TRUE, !.trie = MapDelete(@, addr)]

\* The body of Finalise's loop deleting suicided objects only.
finaliseOneSuicidedOnly(s, addr, deleteEmptyObjects) ==
  IF addr \notin DOMAIN s.stateObjects THEN s
  ELSE LET obj == s.stateObjects[addr]
           done == IF obj.suicided
                   THEN deleteStateObject(s, addr)
                   ELSE updateStateObject([s EXCEPT !.stateObjects[addr] = updateRoot(obj)], addr)
       IN [done EXCEPT !.stateObjectsDirty = @ \cup {addr}]

\* The body of Finalise's loop for one dirtied address.
finaliseOne(s, addr, deleteEmptyObjects) ==
  IF addr \notin DOMAIN s.stateObjects THEN s
  ELSE LET obj == s.stateObjects[addr]
           done == IF obj.suicided \/ (deleteEmptyObjects /\ empty(obj))
                   THEN deleteStateObject(s, addr)
                   ELSE updateStateObject([s EXCEPT !.stateObjects[addr] = updateRoot(obj)], addr)
       IN [done EXCEPT !.stateObjectsDirty = @ \cup {addr}]

RECURSIVE finaliseLoop(_, _, _)
finaliseLoop(s, addrs, deleteEmptyObjects) ==
  IF addrs = {} THEN s
  ELSE LET addr == CHOOSE a \in addrs : TRUE
       IN finaliseLoop(finaliseOne(s, addr, deleteEmptyObjects), addrs \ {addr},
                       deleteEmptyObjects)

\* Finalise.  The loop bodies of distinct addresses touch distinct objects
\* and distinct trie keys, so the order of the map iteration is immaterial.
Finalise(s, deleteEmptyObjects) ==
  clearJournalAndRefund(finaliseLoop(s, dirties(s.journal), deleteEmptyObjects))

\* IntermediateRoot: `root` is the hash returned.
IntermediateRoot(s, deleteEmptyObjects) ==
  LET f == Finalise(s, deleteEmptyObjects) IN [db |-> f, root |-> TrieHash(f.trie)]

\* The orders in which a Go map iteration may visit the keys in S.
Orders(S) ==
  {q \in [1..Cardinality(S) -> S] : \A x \in S : \E i \in 1..Cardinality(S) : q[i] = x}

\* Commit leaving the address in stateObjectsDirty.
commitCleanNothing(s, addr) == s

\* delete(db.stateObjectsDirty, addr) at the end of the body of Commit's loop.
commitClean(s, addr) == [s EXCEPT !.stateObjectsDirty = @ \ {addr}]

\* The loop of Commit over the live objects, visited in `order`; the
\* CommitTrie of the object of failAt fails and ends the loop.  `blobs` is
\* the trie database's code blobs, `inserted` the codes InsertBlob was called
\* with, `updated` the addresses updateStateObject was called for.
RECURSIVE commitLoop(_, _, _, _)
commitLoop(acc, order, deleteEmptyObjects, failAt) ==
  IF order = <<>> THEN acc
  ELSE LET addr == Head(order)
           s == acc.db
           obj == s.stateObjects[addr]
           isDirty == addr \in s.stateObjectsDirty
           clean(db) == commitClean(db, addr)
       IN IF obj.suicided \/ (isDirty /\ deleteEmptyObjects /\ empty(obj))
          THEN commitLoop([acc EXCEPT !.db = clean(deleteStateObject(s, addr))],
                          Tail(order), deleteEmptyObjects, failAt)
          ELSE IF isDirty
          THEN LET insert == obj.code # <<>> /\ obj.dirtyCode
                   coded == IF insert THEN [s EXCEPT !.stateObjects[addr].dirtyCode = FALSE] ELSE s
                   acc1 == [acc EXCEPT !.db = coded,
                                       !.blobs = IF insert THEN @ \cup {obj.code} ELSE @,
                                       !.inserted = IF insert THEN Append(@, obj.code) ELSE @]
               IN IF addr = failAt THEN [acc1 EXCEPT !.err = "commit"]
                  ELSE commitLoop(
                         [acc1 EXCEPT !.db = clean(updateStateObject(
                                                [coded EXCEPT !.stateObjects[addr] = updateRoot(@)],
                                                addr)),
                                      !.updated = @ \cup {addr}],
                         Tail(order), deleteEmptyObjects, failAt)
          ELSE commitLoop([acc EXCEPT !.db = clean(s)], Tail(order), deleteEmptyObjects, failAt)

\* Commit.  The deferred clearJournalAndRefund runs on both returns.
Commit(s, blobs, deleteEmptyObjects, order, failAt) ==
  LET merged == [s EXCEPT !.stateObjectsDirty = @ \cup dirties(s.journal)]
      r == commitLoop([db |-> merged, blobs |-> blobs, inserted |-> <<>>, updated |-> {},
                       err |-> NoError],
                      order, deleteEmptyObjects, failAt)
  IN [db |-> clearJournalAndRefund(r.db), blobs |-> r.blobs, inserted |-> r.inserted,
      updated |-> r.updated, err |-> r.err,
      root |-> IF r.err = NoError THEN TrieHash(r.db.trie) ELSE ZeroHash]

\* stateObject.deepCopy
deepCopy(obj) ==
  [newObject(obj.address, obj.data) EXCEPT !.trie = obj.trie, !.code = obj.code,
                                           !.dirtyStorage = obj.dirtyStorage,
                                           !.suicided = obj.suicided,
                                           !.dirtyCode = obj.dirtyCode,
                                           !.deleted = obj.deleted]

\* The first loop of Copy: the dirtied addresses that have a live object.
copyJournalDirties(s) == dirties(s.journal) \cap DOMAIN s.stateObjects

\* Copy without its second loop.
CopyJournalOnly(s) ==
  LET first == copyJournalDirties(s)
  IN [db |-> [NewStateDB(s.trie) EXCEPT
                !.stateObjects = [a \in first |-> deepCopy(s.stateObjects[a])],
                !.stateObjectsDirty = first,
                !.refund = s.refund, !.logs = s.logs, !.logSize = s.logSize,
                !.preimages = s.preimages],
      panic |-> FALSE]

\* Copy.  The second loop dereferences db.stateObjects[addr] for every
\* address of stateObjectsDirty the first loop did not copy: a nil pointer
\* when the address has no live object.
Copy(s) ==
  LET first == copyJournalDirties(s)
      second == s.stateObjectsDirty \ first
  IN IF ~(second \subseteq DOMAIN s.stateObjects) THEN [db |-> s, panic |-> TRUE]
     ELSE [db |-> [NewStateDB(s.trie) EXCEPT
                     !.stateObjects = [a \in first \cup second |-> deepCopy(s.stateObjects[a])],
                     !.stateObjectsDirty = first \cup second,
                     !.refund = s.refund, !.logs = s.logs, !.logSize = s.logSize,
                     !.preimages = s.preimages],
           panic |-> FALSE]

\* Database.OpenTrie: the empty root always opens, a root the trie database
\* does not hold is an error.
UnknownRoot == [kind |-> "unknown"]

OpenTrie(root) ==
  IF root = emptyState THEN [trie |-> EmptyMap, err |-> NoError]
  ELSE [trie |-> EmptyMap, err |-> "missing trie node"]

\* Reset.
Reset(s, root) ==
  LET tr == OpenTrie(root)
  IN IF tr.err # NoError THEN [db |-> s, err |-> tr.err]
     ELSE [db |-> clearJournalAndRefund(
                    [s EXCEPT !.trie = tr.trie, !.stateObjects = EmptyMap,
                              !.stateObjectsDirty = {}, !.thash = 0, !.logs = EmptyMap,
                              !.logSize = 0, !.preimages = EmptyMap]),
           err |-> NoError]

\* ---------------------------------------------------------------- getters
\* The object a getter works on (Nil when there is none).
live(s, addr) == getStateObject(s, addr).obj

Exist(s, addr) == live(s, addr) # Nil

Empty(s, addr) == live(s, addr) = Nil \/ empty(live(s, addr))

GetBalance(s, addr) == IF live(s, addr) # Nil THEN live(s, addr).data.Balance ELSE 0

GetNonce(s, addr) == IF live(s, addr) # Nil THEN live(s, addr).data.Nonce ELSE 0

GetCode(s, addr, blobs) == IF live(s, addr) # Nil THEN Code(live(s, addr), blobs) ELSE <<>>

GetState(s, addr, key) == IF live(s, addr) # Nil THEN objGetState(live(s, addr), key) ELSE 0

HasSuicided(s, addr) == IF live(s, addr) # Nil THEN live(s, addr).suicided ELSE FALSE

GetRefund(s) == s.refund

\* What a StateDB reports of its state through its getters.
Observables(s, blobs) ==
  [balance |-> [a \in Addrs |-> GetBalance(s, a)],
   nonce |-> [a \in Addrs |-> GetNonce(s, a)],
   code |-> [a \in Addrs |-> GetCode(s, a, blobs)],
   storage |-> [a \in Addrs |-> [k \in Slots |-> GetState(s, a, k)]],
   suicided |-> [a \in Addrs |-> HasSuicided(s, a)],
   refund |-> GetRefund(s),
   logs |-> s.logs,
   logSize |-> s.logSize,
   preimages |-> s.preimages]

\* ---------------------------------------------------- callers of a StateDB
\* The variables of the segmented table, which a StateDB never touches.
tableVars == <<segments, semaphore, cache, maxOpen, evictCalls, pc, frame, ret,
               opened, active, ldbSegments, mu, MinMutableSegmentCount, batches>>

\* What a StateDB method leaves behind: the StateDB d it was called on, its
\* arguments and what it returned or did (undone: the journal entries a
\* revert undid).
DBReturn(op, d) ==
  [op |-> op, d |-> d, addr |-> NoAddr, flag |-> FALSE, id |-> -1, panic |-> FALSE,
   err |-> NoError, root |-> ZeroHash, ok |-> TRUE, updated |-> {}, inserted |-> <<>>,
   undone |-> 0]

\* A method without a result leaves nothing behind.
NoDBReturn == [op |-> "none"]

\* The values the model keeps a StateDB within.
Bounded(s) ==
  /\ Len(s.journal) <= MaxJournal
  /\ \A a \in DOMAIN s.stateObjects : s.stateObjects[a].data.Balance \in 0..MaxBalance
  /\ s.refund <= MaxRefund
  /\ s.logSize <= MaxLogs
  /\ s.nextRevisionId <= MaxRevisions

\* The identifiers RevertToSnapshot accepts.
validIds(s) == {s.validRevisions[i].id : i \in DOMAIN s.validRevisions}

\* StateDB d becomes s and the call returns r; what was reported at the
\* snapshots that are no longer valid is forgotten.
Store(d, s, r) ==
  \E new \in {s} :
    /\ Bounded(new)
    /\ stateDBs' = [stateDBs EXCEPT ![d] = new]
    /\ dbret' = r
    /\ atSnapshot' = [k \in {x \in DOMAIN atSnapshot : x[1] # d \/ x[2] \in validIds(new)}
                        |-> atSnapshot[k]]
    /\ UNCHANGED <<tableVars, feedVars, codeBlobs>>

SDAddBalance(d, addr, amount) ==
  Store(d, AddBalance(stateDBs[d], addr, amount), NoDBReturn)

SDSubBalance(d, addr, amount) ==
  /\ amount <= GetBalance(stateDBs[d], addr)
  /\ Store(d, SubBalance(stateDBs[d], addr, amount), NoDBReturn)

SDSetBalance(d, addr, amount) ==
  Store(d, SetBalance(stateDBs[d], addr, amount), NoDBReturn)

SDSetNonce(d, addr, nonce) ==
  Store(d, SetNonce(stateDBs[d], addr, nonce), NoDBReturn)

SDSetCode(d, addr, code) ==
  Store(d, SetCode(stateDBs[d], addr, code, codeBlobs), NoDBReturn)

SDSetState(d, addr, key, value) ==
  Store(d, SetState(stateDBs[d], addr, key, value), NoDBReturn)

SDSuicide(d, addr) ==
  \E r \in {Suicide(stateDBs[d], addr)} :
    Store(d, r.db, [DBReturn("Suicide", d) EXCEPT !.addr = addr, !.ok = r.ok])

SDCreateAccount(d, addr) ==
  Store(d, CreateAccount(stateDBs[d], addr), NoDBReturn)

SDAddRefund(d, gas) ==
  Store(d, AddRefund(stateDBs[d], gas), NoDBReturn)

SDSubRefund(d, gas) ==
  \E r \in {SubRefund(stateDBs[d], gas)} :
    Store(d, r.db, IF r.panic THEN [DBReturn("SubRefund", d) EXCEPT !.panic = TRUE]
                    ELSE NoDBReturn)

SDAddLog(d) == Store(d, AddLog(stateDBs[d]), NoDBReturn)

SDAddPreimage(d, hash, preimage) ==
  Store(d, AddPreimage(stateDBs[d], hash, preimage), NoDBReturn)

SDPrepare(d, thash) ==
  /\ thash # stateDBs[d].thash
  /\ Store(d, Prepare(stateDBs[d], thash), NoDBReturn)

\* Exist is a getter; it is an operation of its own because getStateObject
\* adds the account it loads to the live set.
SDExist(d, addr) ==
  /\ getStateObject(stateDBs[d], addr).db # stateDBs[d]
  /\ Store(d, getStateObject(stateDBs[d], addr).db,
           [DBReturn("Exist", d) EXCEPT !.addr = addr, !.ok = Exist(stateDBs[d], addr)])

SDSnapshot(d) ==
  \E r \in {Snapshot(stateDBs[d])} :
    /\ Bounded(r.db)
    /\ stateDBs' = [stateDBs EXCEPT ![d] = r.db]
    /\ dbret' = [DBReturn("Snapshot", d) EXCEPT !.id = r.id]
    /\ atSnapshot' = MapPut(atSnapshot, <<d, r.id>>, Observables(stateDBs[d], codeBlobs))
    /\ UNCHANGED <<tableVars, feedVars, codeBlobs>>

SDRevertToSnapshot(d, revid) ==
  \E r \in {RevertToSnapshot(stateDBs[d], revid)} :
    Store(d, r.db, [DBReturn("RevertToSnapshot", d) EXCEPT
                       !.id = revid, !.panic = r.panic,
                       !.undone = Len(stateDBs[d].journal) - Len(r.db.journal)])

SDFinalise(d, deleteEmptyObjects) ==
  Store(d, Finalise(stateDBs[d], deleteEmptyObjects),
        [DBReturn("Finalise", d) EXCEPT !.flag = deleteEmptyObjects])

SDIntermediateRoot(d, deleteEmptyObjects) ==
  \E r \in {IntermediateRoot(stateDBs[d], deleteEmptyObjects)} :
    Store(d, r.db, [DBReturn("IntermediateRoot", d) EXCEPT !.flag = deleteEmptyObjects,
                                                            !.root = r.root])

SDCommit(d, deleteEmptyObjects, failAt) ==
  /\ failAt # NoAddr => failAt \in DOMAIN stateDBs[d].stateObjects
  /\ \E order \in Orders(DOMAIN stateDBs[d].stateObjects) :
       \E r \in {Commit(stateDBs[d], codeBlobs, deleteEmptyObjects, order, failAt)} :
          /\ failAt # NoAddr => r.err # NoError
          /\ Bounded(r.db)
          /\ stateDBs' = [stateDBs EXCEPT ![d] = r.db]
          /\ codeBlobs' = r.blobs
          /\ dbret' = [DBReturn("Commit", d) EXCEPT !.flag = deleteEmptyObjects, !.root = r.root,
                                                    !.err = r.err, !.updated = r.updated,
                                                    !.inserted = r.inserted]
          /\ atSnapshot' = [k \in {x \in DOMAIN atSnapshot : x[1] # d} |-> atSnapshot[k]]
          /\ UNCHANGED <<tableVars, feedVars>>

SDReset(d, root) ==
  \E r \in {Reset(stateDBs[d], root)} :
    Store(d, r.db, [DBReturn("Reset", d) EXCEPT !.root = root, !.err = r.err])

\* c = db.Copy(): the copy becomes the next StateDB.
SDCopy(d) ==
  \E r \in {Copy(stateDBs[d])} :
    /\ Len(stateDBs) < MaxDBs
    /\ stateDBs' = IF r.panic THEN stateDBs ELSE Append(stateDBs, r.db)
    /\ dbret' = [DBReturn("Copy", d) EXCEPT !.panic = r.panic]
    /\ UNCHANGED <<tableVars, feedVars, codeBlobs, atSnapshot>>

\* No Table and no SegmentSet is in use.
TableIdle ==
  /\ maxOpen = NewSegmentSet(0)
  /\ MinMutableSegmentCount = 0
  /\ segments = EmptyMap
  /\ semaphore = 0
  /\ cache = <<>>
  /\ evictCalls = <<>>
  /\ pc = [t \in Threads |-> "idle"]
  /\ frame = [t \in Threads |-> NoCall]
  /\ ret = NoReturn
  /\ opened = FALSE
  /\ active = <<>>
  /\ ldbSegments = EmptyMap
  /\ mu = 0
  /\ batches = EmptyMap
  /\ FeedIdle

\* New over the empty trie of a fresh trie database.
InitDB ==
  /\ TableIdle
  /\ stateDBs = <<NewStateDB(EmptyMap)>>
  /\ codeBlobs = {}
  /\ dbret = NoDBReturn
  /\ atSnapshot = EmptyMap

\* A trie an earlier block committed: account 2 has a nonce, a balance,
\* code and one storage slot.
committedTrie ==
  [a \in {2} |-> Account(1, 1, TrieHash([k \in Slots |-> 1]), Keccak256Hash(<<1>>))]

\* The StateDBs a transaction may start on: New over the committed trie,
\* and the same after a transaction that created and destroyed account 1.
StartDBs ==
  {NewStateDB(committedTrie),
   Finalise(Suicide(AddBalance(NewStateDB(committedTrie), 1, 1), 1).db, TRUE)}

InitSnap ==
  /\ TableIdle
  /\ \E s \in StartDBs : stateDBs = <<s>>
  /\ codeBlobs = {<<1>>}
  /\ dbret = NoDBReturn
  /\ atSnapshot = EmptyMap

\* The calls on StateDB d that change accounts, their addresses drawn from A.
SDAccounts(d, A) ==
  \/ \E addr \in A, amount \in 0..MaxBalance : SDAddBalance(d, addr, amount)
  \/ \E addr \in A, amount \in 0..MaxBalance : SDSubBalance(d, addr, amount)
  \/ \E addr \in A, amount \in 0..MaxBalance : SDSetBalance(d, addr, amount)
  \/ \E addr \in A, nonce \in 0..1 : SDSetNonce(d, addr, nonce)
  \/ \E addr \in A, code \in Codes : SDSetCode(d, addr, code)
  \/ \E addr \in A, key \in Slots, value \in Words : SDSetState(d, addr, key, value)
  \/ \E addr \in A : SDSuicide(d, addr)
  \/ \E addr \in A : SDCreateAccount(d, addr)

\* The calls that change the refund counter, the logs and the preimages.
SDCounters(d) ==
  \/ SDAddRefund(d, 1)
  \/ SDSubRefund(d, 1)
  \/ (stateDBs[d].logSize < MaxCounterLogs /\ SDAddLog(d))
  \/ SDAddPreimage(d, 1, <<1>>)

SDSnapshots(d) ==
  \/ SDSnapshot(d)
  \/ \E revid \in 0..MaxRevisions : SDRevertToSnapshot(d, revid)

\* The calls that end a transaction or a block.
SDEnds(d, A) ==
  \/ \E flag \in BOOLEAN : SDFinalise(d, flag)
  \/ \E flag \in BOOLEAN : SDIntermediateRoot(d, flag)
  \/ \E flag \in BOOLEAN, failAt \in A \cup {NoAddr} : SDCommit(d, flag, failAt)
  \/ \E root \in {emptyState, UnknownRoot} : SDReset(d, root)

\* Transactions and blocks on a StateDB: account 1 is funded and destroyed,
\* the counters move, snapshots are taken and reverted to, and every call
\* that ends a transaction or a block.
NextDB ==
  \/ SDAddBalance(1, 1, 1)
  \/ SDSuicide(1, 1)
  \/ SDCounters(1)
  \/ SDSnapshots(1)
  \/ SDEnds(1, {1})

SpecDB == InitDB /\ [][NextDB]_vars

\* One transaction on a StateDB: every mutation of account 1, storage
\* writes to and the destruction of account 2, the counters, snapshots and
\* reverts.
NextSnap ==
  \/ SDAccounts(1, {1})
  \/ \E value \in Words : SDSetState(1, 2, 1, value)
  \/ SDSuicide(1, 2)
  \/ \E addr \in Addrs : SDExist(1, addr)
  \/ SDCounters(1)
  \/ SDSnapshots(1)

SpecSnap == InitSnap /\ [][NextSnap]_vars

\* Blocks on a StateDB: account 1 is funded, touched, given code and
\* storage and destroyed, account 2 is funded and touched, transactions are
\* finalised and blocks committed.
NextCommit ==
  \/ \E amount \in 0..MaxBalance : SDAddBalance(1, 1, amount)
  \/ SDSetCode(1, 1, <<1>>)
  \/ SDSetState(1, 1, 1, 1)
  \/ SDSuicide(1, 1)
  \/ \E amount \in 0..MaxBalance : SDAddBalance(1, 2, amount)
  \/ \E flag \in BOOLEAN : SDFinalise(1, flag)
  \/ \E flag \in BOOLEAN, failAt \in Addrs \cup {NoAddr} : SDCommit(1, flag, failAt)

SpecCommit == InitDB /\ [][NextCommit]_vars

\* A StateDB over the committed trie and its copies.  A block is built on
\* StateDB 1: account 1 is funded, account 2 is created again over its
\* committed record or spends its balance, the refund counter moves, a
\* snapshot is taken, the transaction or the block ends.  Then the newest
\* StateDB is copied; every StateDB still receives a transfer and a Commit,
\* and the copies are asked to revert to the identifier StateDB 1 first
\* issued.
SDBuild(d) ==
  \/ SDCreateAccount(d, 2)
  \/ SDSubBalance(d, 2, 1)
  \/ SDAddRefund(d, 1)
  \/ SDSnapshot(d)
  \/ SDFinalise(d, TRUE)

SDCopies(d) ==
  \/ SDAddBalance(d, 1, 1)
  \/ SDCommit(d, TRUE, NoAddr)
  \/ (d > 1 /\ SDRevertToSnapshot(d, 0))
  \/ (d = Len(stateDBs) /\ SDCopy(d))

InitCopy ==
  /\ TableIdle
  /\ stateDBs = <<NewStateDB(committedTrie)>>
  /\ codeBlobs = {<<1>>}
  /\ dbret = NoDBReturn
  /\ atSnapshot = EmptyMap

NextCopy ==
  \/ (Len(stateDBs) = 1 /\ SDBuild(1))
  \/ \E d \in DOMAIN stateDBs : SDCopies(d)

SpecCopy == InitCopy /\ [][NextCopy]_vars

\* ------------------------------------------------------- claims: StateDB
\* C13: a RevertToSnapshot(id) that returns leaves the balance, nonce, code,
\* storage slots and suicided flag of every address, the refund counter, the
\* logs with logSize and the preimages as the StateDB reported them when
\* Snapshot returned id, whatever was executed in between.
C13_RevertRestores ==
  [][(dbret'.op = "RevertToSnapshot" /\ ~dbret'.panic) =>
       /\ <<dbret'.d, dbret'.id>> \in DOMAIN atSnapshot
       /\ Observables(stateDBs'[dbret'.d], codeBlobs') = atSnapshot[<<dbret'.d, dbret'.id>>]]_vars

\* C13 witness: the revert undid three journal entries, among them a storage
\* write to and the destruction of account 2, whose slot reads 1 again.
C13_Witness ==
  /\ dbret.op = "RevertToSnapshot"
  /\ ~dbret.panic
  /\ dbret.undone = 3
  /\ stateDBs[1].journal = <<>>
  /\ 2 \in DOMAIN stateDBs[1].stateObjects
  /\ 1 \in DOMAIN stateDBs[1].stateObjects[2].dirtyStorage
  /\ GetState(stateDBs[1], 2, 1) = 1
  /\ ~HasSuicided(stateDBs[1], 2)
  /\ GetBalance(stateDBs[1], 2) = 1

\* C14: snapshots form a stack.  A RevertToSnapshot(id) that returns leaves
\* valid exactly the identifiers that were valid and issued before id; a
\* later revert to id or to one issued after it panics, and a revert to any
\* identifier left restores what the StateDB reported at its own Snapshot.
C14_SnapshotStack ==
  [][(dbret'.op = "RevertToSnapshot" /\ ~dbret'.panic) =>
       LET d == dbret'.d
           id == dbret'.id
           old == stateDBs[d]
           new == stateDBs'[d]
       IN /\ id \in validIds(old)
          /\ validIds(new) = {i \in validIds(old) : i < id}
          /\ \A i \in validIds(old) \ validIds(new) : RevertToSnapshot(new, i).panic
          /\ \A i \in validIds(new) :
               /\ ~RevertToSnapshot(new, i).panic
               /\ Observables(RevertToSnapshot(new, i).db, codeBlobs')
                    = atSnapshot[<<d, i>>]]_vars

\* C14 witness: a revert to the inner of two nested snapshots undid an entry
\* and left the outer one valid, with entries of its own still to undo.
C14_Witness ==
  /\ dbret.op = "RevertToSnapshot"
  /\ ~dbret.panic
  /\ dbret.id = 1
  /\ dbret.undone >= 1
  /\ validIds(stateDBs[1]) = {0}
  /\ Len(stateDBs[1].journal) > stateDBs[1].validRevisions[1].journalIndex

\* The calls after which C15 and C16 hold: Finalise, IntermediateRoot and
\* Commit whatever they return, Reset when it returns nil.
EndedCleared(r) ==
  \/ r.op \in {"Finalise", "IntermediateRoot", "Commit"}
  \/ r.op = "Reset" /\ r.err = NoError

\* What C15 says of one step, `ended` telling the calls that invalidate
\* every identifier issued before them.
C15_Step(ended(_)) ==
  /\ \A d \in DOMAIN stateDBs : stateDBs'[d].nextRevisionId >= stateDBs[d].nextRevisionId
  /\ \A d \in DOMAIN stateDBs' :
       \A i \in validIds(stateDBs'[d]) : i < stateDBs'[d].nextRevisionId
  /\ (dbret'.op = "Snapshot") =>
       /\ dbret'.id = stateDBs[dbret'.d].nextRevisionId
       /\ stateDBs'[dbret'.d].nextRevisionId = dbret'.id + 1
       /\ \A i \in validIds(stateDBs[dbret'.d]) : i < dbret'.id
  /\ (dbret'.op = "RevertToSnapshot" /\ dbret'.id \notin validIds(stateDBs[dbret'.d])) =>
       /\ dbret'.panic
       /\ stateDBs' = stateDBs
       /\ codeBlobs' = codeBlobs
  /\ (dbret'.op = "RevertToSnapshot" /\ dbret'.id \in validIds(stateDBs[dbret'.d])) =>
       ~dbret'.panic
  /\ (dbret'.op # "none" /\ ended(dbret')) =>
       \A i \in 0..MaxRevisions : RevertToSnapshot(stateDBs'[dbret'.d], i).panic

\* C15 as stated: RevertToSnapshot panics, changing nothing, for every id
\* never issued, already reverted to or past, or issued before the last
\* Finalise, IntermediateRoot, Commit or Reset; identifiers strictly
\* increase and are never reused.
C15_AsStated ==
  [][C15_Step(LAMBDA r : r.op \in {"Finalise", "IntermediateRoot", "Commit", "Reset"})]_vars

\* C15 amended: the same with a Reset counting only when it returns nil (a
\* Reset whose trie does not open returns the error and leaves every
\* revision valid).
C15_StaleIdPanics == [][C15_Step(EndedCleared)]_vars

\* C15 witness: identifier 0, issued before a call that ended the
\* transaction, made RevertToSnapshot panic while identifier 1, issued
\* after it, is valid and has journal entries to undo.
C15_Witness ==
  /\ dbret.op = "RevertToSnapshot"
  /\ dbret.panic
  /\ dbret.id = 0
  /\ validIds(stateDBs[1]) = {1}
  /\ Len(stateDBs[1].journal) > stateDBs[1].validRevisions[1].journalIndex

\* What C16 says of the StateDB a call r returned from.
ClearedAfter(r) ==
  LET s == stateDBs[r.d]
  IN /\ s.journal = <<>>
     /\ dirties(s.journal) = {}
     /\ s.validRevisions = <<>>
     /\ s.refund = 0

\* C16 as stated: after every return of Finalise, IntermediateRoot, Commit
\* (with or without an error) and Reset the journal and its dirtied set are
\* empty, validRevisions is empty and the refund counter is 0.
C16_AsStated ==
  dbret.op \in {"Finalise", "IntermediateRoot", "Commit", "Reset"} => ClearedAfter(dbret)

\* C16 amended: the same after every return of Finalise, IntermediateRoot
\* and Commit (with or without an error) and after every Reset that
\* returns nil.
C16_ClearedAfterEnd ==
  (dbret.op # "none" /\ EndedCleared(dbret)) => ClearedAfter(dbret)

\* C16 witness: a Commit returned an error, after a snapshot had been taken,
\* and left the journal, the revisions and the refund counter cleared while
\* the account it failed on is still marked dirty.
C16_Witness ==
  /\ dbret.op = "Commit"
  /\ dbret.err # NoError
  /\ ClearedAfter(dbret)
  /\ stateDBs[1].nextRevisionId > 0
  /\ stateDBs[1].stateObjectsDirty = {1}

C18_FinaliseTrue ==
  [][(dbret'.op = "Finalise" /\ dbret'.flag) =>
       LET old == stateDBs[dbret'.d]
           new == stateDBs'[dbret'.d]
       IN \A addr \in dirties(old.journal) \cap DOMAIN old.stateObjects :
            LET obj == old.stateObjects[addr]
            IN IF empty(obj) \/ obj.suicided
               THEN /\ addr \notin DOMAIN new.trie
                    /\ ~Exist(new, addr)
               ELSE /\ addr \in DOMAIN new.trie
                    /\ new.trie[addr] = new.stateObjects[addr].data
                    /\ new.trie[addr] =
                         Account(obj.data.Nonce, obj.data.Balance,
                                 TrieHash([k \in {x \in Slots : objGetState(obj, x) # 0}
                                             |-> objGetState(obj, k)]),
                                 obj.data.CodeHash)
                    /\ addr \in new.stateObjectsDirty]_vars

\* C18 witness: Finalise(true) returned; account 1, with a balance and a
\* storage slot, is in the trie and account 2, touched while empty, is a
\* deleted object without a trie entry; both are in stateObjectsDirty.
C18_Witness ==
  /\ dbret.op = "Finalise"
  /\ dbret.flag
  /\ stateDBs[1].stateObjectsDirty = {1, 2}
  /\ 1 \in DOMAIN stateDBs[1].trie
  /\ stateDBs[1].trie[1].Balance = 1
  /\ stateDBs[1].trie[1].Root # emptyState
  /\ 2 \notin DOMAIN stateDBs[1].trie
  /\ stateDBs[1].stateObjects[2].deleted
  /\ ~stateDBs[1].stateObjects[2].suicided

\* What C19 lists of a StateDB: balance, nonce, code and storage of every
\* account, the refund counter, the logs, logSize and the preimages.
Reported(s, blobs) ==
  [f \in DOMAIN Observables(s, blobs) \ {"suicided"} |-> Observables(s, blobs)[f]]

\* C19: when Copy returns c for db, c reports the same balance, nonce, code,
\* storage, refund, logs, logSize and preimages as db; c's journal and its
\* valid revisions are empty and RevertToSnapshot on c panics for every
\* identifier; and a call on one StateDB changes what no other reports.
C19_CopySame ==
  [][/\ (dbret'.op = "Copy" /\ ~dbret'.panic) =>
          LET db == stateDBs[dbret'.d]
              c == stateDBs'[Len(stateDBs')]
          IN /\ Reported(c, codeBlobs') = Reported(db, codeBlobs)
             /\ c.journal = <<>>
             /\ c.validRevisions = <<>>
             /\ \A revid \in 0..MaxRevisions : RevertToSnapshot(c, revid).panic
      /\ Cardinality({d \in DOMAIN stateDBs :
                        Reported(stateDBs'[d], codeBlobs') # Reported(stateDBs[d], codeBlobs)}) <= 1]_vars

\* C20: when the copy of a StateDB with uncommitted dirty accounts is copied
\* at once, the copy of the copy has the dirty addresses and the objects of
\* the copy, and Commit on it returns the root Commit on the StateDB returns.
C20_CopyOfCopy ==
  [][(/\ dbret.op = "Copy" /\ ~dbret.panic
      /\ dbret'.op = "Copy" /\ ~dbret'.panic
      /\ dbret'.d = Len(stateDBs)
      /\ dirties(stateDBs[dbret.d].journal) \cup stateDBs[dbret.d].stateObjectsDirty # {}) =>
       LET db == stateDBs[dbret.d]
           c1 == stateDBs[Len(stateDBs)]
           c2 == stateDBs'[Len(stateDBs')]
       IN /\ c2.stateObjectsDirty = c1.stateObjectsDirty
          /\ c2.stateObjects = c1.stateObjects
          /\ c2.stateObjectsDirty =
               (dirties(db.journal) \cap DOMAIN db.stateObjects) \cup db.stateObjectsDirty
          /\ \A flag \in BOOLEAN :
               \A o \in Orders(DOMAIN db.stateObjects), o2 \in Orders(DOMAIN c2.stateObjects) :
                 Commit(c2, codeBlobs, flag, o2, NoAddr).root
                   = Commit(db, codeBlobs, flag, o, NoAddr).root]_vars

\* C20 witness: StateDB 3 is the copy of the copy of StateDB 1, whose
\* account 1 was made dirty before a Finalise and whose account 2 after it;
\* both are dirty in StateDB 3 although the journal of StateDB 2 is empty.
C20_Witness ==
  /\ dbret.op = "Copy"
  /\ dbret.d = 2
  /\ Len(stateDBs) = 3
  /\ stateDBs[2].journal = <<>>
  /\ stateDBs[1].stateObjectsDirty = {1}
  /\ dirties(stateDBs[1].journal) = {2}
  /\ stateDBs[3].stateObjectsDirty = {1, 2}
  /\ stateDBs[3].stateObjects = stateDBs[2].stateObjects

\* Accounts that destroy themselves on a StateDB over the committed trie:
\* both accounts are destroyed, funded and account 2 created again, a
\* snapshot is taken and reverted to, and the transaction or the block ends
\* with either flag, with a Commit whose CommitTrie of account 1 may fail, or
\* with a Reset.
NextSuicide ==
  \/ \E addr \in Addrs : SDSuicide(1, addr)
  \/ \E addr \in Addrs : SDAddBalance(1, addr, 1)
  \/ SDCreateAccount(1, 2)
  \/ SDSnapshot(1)
  \/ SDRevertToSnapshot(1, 0)
  \/ \E flag \in BOOLEAN : SDFinalise(1, flag)
  \/ \E flag \in BOOLEAN, failAt \in {1, NoAddr} : SDCommit(1, flag, failAt)
  \/ SDReset(1, emptyState)

SpecSuicide == InitCopy /\ [][NextSuicide]_vars

\* The step ends a transaction or a block of the StateDB.
EndsTx == dbret'.op \in {"Finalise", "IntermediateRoot", "Commit"}

\* The step appended a journal entry that changes the balance of addr or
\* replaces its object.
Rewrote(addr) ==
  LET old == stateDBs[1].journal
      new == stateDBs'[1].journal
  IN /\ Len(new) = Len(old) + 1
     /\ \/ new[Len(new)].kind = "balance" /\ new[Len(new)].account = addr
        \/ new[Len(new)].kind = "resetObject" /\ new[Len(new)].prev.address = addr

\* Suicide(addr) was called since the last Finalise or Commit and has not
\* been reverted: its entry is in the journal.
SuicideJournaled(addr) ==
  \E i \in DOMAIN stateDBs[1].journal :
    /\ stateDBs[1].journal[i].kind = "suicide"
    /\ stateDBs[1].journal[i].account = addr

\* What C21 says of a Suicide(addr) that has returned: on an existing
\* account it returned true and the account exists, has suicided and has no
\* balance; on any other it returned false and the StateDB is as before.
SuicideReturned(addr) ==
  (dbret'.op = "Suicide" /\ dbret'.addr = addr) =>
    IF Exist(stateDBs[1], addr)
    THEN /\ dbret'.ok
         /\ Exist(stateDBs'[1], addr)
         /\ HasSuicided(stateDBs'[1], addr)
         /\ GetBalance(stateDBs'[1], addr) = 0
    ELSE /\ ~dbret'.ok
         /\ stateDBs'[1] = stateDBs[1]

C22_CompactionAborts ==
  [][ ( /\ ret'.op \in {"Compact", "Create"}
        /\ "failAt" \in DOMAIN ret'
        /\ ret'.failAt # <<>> )
      => LET S == ret'.failAt
             names == IF ret'.op = "Compact" THEN DOMAIN ldbSegments
                      ELSE (DOMAIN ldbSegments) \cup {ret'.name}
         IN /\ ret'.err = "compact"
            /\ S \in names
            /\ S \in DOMAIN ldbSegments'
            /\ S \notin DOMAIN segments'
            /\ \A n \in names : StringLess(S, n) =>
                 /\ n \in DOMAIN ldbSegments'
                 /\ n \in DOMAIN segments' => n \in DOMAIN segments
            /\ \A n \in names : (StringLess(n, S) /\ n \notin ret'.young) =>
                 /\ n \in DOMAIN segments'
                 /\ n \notin DOMAIN ldbSegments'
    ]_vars

\* C22 witness: Compact has returned the error of segment 10, with segment
\* 1 compacted and the candidate 2 still mutable although every mutable
\* segment was a candidate.
C22_Witness ==
  /\ ret.op = "Compact"
  /\ ret.err = "compact"
  /\ ret.failAt = <<1, 0>>
  /\ ret.young = {}
  /\ MinMutableSegmentCount = 0
  /\ <<1>> \in (DOMAIN segments) \ (DOMAIN ldbSegments)
  /\ <<1, 0>> \in (DOMAIN ldbSegments) \ (DOMAIN segments)
  /\ <<2>> \in (DOMAIN ldbSegments) \ (DOMAIN segments)

\* The labels of a caller that is inside Acquire or holds the segment it
\* returned.
InAcquire(label) == label \in {"Acquire_cache", "Acquire_lookup", "Acquire_add", "acquired"}

\* C23: Acquire takes one permit when it starts and keeps it while it runs
\* and when it returns a segment; when it returns no segment (the name is
\* neither cached nor in the universe, or the segment's Open fails) it has
\* given the permit back and none of its steps has changed the cache.  So
\* the permits out are those of the callers inside Acquire, of the callers
\* holding a segment and of the callers inside Remove.
C23_AcquirePermits ==
  [][/\ \A t \in Callers :
          /\ (pc[t] = "idle" /\ pc'[t] = "Acquire_cache") => semaphore' = semaphore + 1
          /\ (InAcquire(pc[t]) /\ InAcquire(pc'[t]) /\ pc'[t] # pc[t]) =>
                semaphore' = semaphore
          /\ (pc[t] = "Acquire_cache" /\ pc'[t] = "Acquire_lookup") => cache' = cache
          /\ (InAcquire(pc[t]) /\ pc[t] # "acquired" /\ pc'[t] = "idle") =>
                /\ pc[t] = "Acquire_lookup"
                /\ ret'.seg = Nil
                /\ ret'.err = NoError <=> ret'.name \notin DOMAIN segments
                /\ semaphore' = semaphore - 1
                /\ cache' = cache
     /\ semaphore' = Cardinality({t \in Callers : InAcquire(pc'[t]) \/ pc'[t] = "Remove_cache"})
    ]_vars

\* C23 witness: an Acquire has returned the error of a failed Open and no
\* segment while the other caller holds a segment: one permit is out and the
\* cache holds the other caller's segment only.
C23_Witness ==
  /\ ret.op = "Acquire"
  /\ ret.seg = Nil
  /\ ret.err = "open"
  /\ ret.name \in DOMAIN segments
  /\ \E t \in Callers : pc[t] = "acquired" /\ frame[t].name # ret.name
  /\ semaphore = 1
  /\ Len(cache) = 1
  /\ cache[1].key # ret.name

\* Two threads that only read and delete, next to compaction: Has, Get and
\* Delete on the keys of two segments, and Compact.
NextAccess ==
  \/ TOpenAny({<<1>>, <<2>>})
  \/ \E t \in Threads :
       \/ \E key \in Keys, openFails \in BOOLEAN : THas(t, key, openFails)
       \/ \E key \in Keys, openFails \in BOOLEAN : TGet(t, key, openFails)
       \/ \E key \in Keys, openFails \in BOOLEAN : TDelete(t, key, openFails)
       \/ \E closed \in BOOLEAN : TGetRead(t, closed)
       \/ \E closed \in BOOLEAN : TDeleteApply(t, closed)
       \/ \E young \in SUBSET (DOMAIN ldbSegments), failAt \in (DOMAIN ldbSegments) \cup {<<>>} :
            TCompact(t, young, failAt)

SpecAccess == Init /\ [][NextAccess]_vars

\* C24: the permits out are those of the threads between AcquireSegment and
\* ReleaseSegment on an immutable segment, so a thread that has returned
\* from Has, Get or Delete, with or without an error, holds none; taking a
\* mutable segment and releasing it, compacted in between or not, leaves the
\* permits as they are.
C24_AccessPermits ==
  [][/\ semaphore' = Cardinality({t \in Threads : /\ pc'[t] \in {"Get_read", "Delete_apply"}
                                                  /\ frame'[t].s.kind = "file"})
     /\ \A t \in Threads :
          /\ (/\ pc[t] = "idle" /\ pc'[t] \in {"Get_read", "Delete_apply"}
              /\ frame'[t].s.kind = "ldb") => semaphore' = semaphore
          /\ (/\ pc[t] \in {"Get_read", "Delete_apply"} /\ pc'[t] = "idle"
              /\ frame[t].s.kind = "ldb") =>
                /\ ret'.op \in {"Has", "Get", "Delete"}
                /\ semaphore' = semaphore
          /\ (/\ pc[t] = "idle" /\ pc'[t] = "idle" /\ ret'.op \in {"Has", "Get", "Delete"}
              /\ ret'.thread = t) => semaphore' = semaphore
    ]_vars

\* C24 witness: Has has returned the error of a mutable segment that was
\* compacted, and closed, after AcquireSegment had handed it out; the one
\* permit out is the other thread's, which holds the immutable segment.
C24_Witness ==
  /\ ret.op = "Has"
  /\ ret.err = "closed"
  /\ ret.name \in (DOMAIN segments) \ (DOMAIN ldbSegments)
  /\ semaphore = 1
  /\ \E t \in Threads : /\ t # ret.thread
                        /\ pc[t] = "Delete_apply"
                        /\ frame[t].s.kind = "file"
                        /\ frame[t].s.name = ret.name

\* The names the LRU holds.
Cached(c) == {c[i].key : i \in 1..Len(c)}

\* C25: when the cache.Add of an Acquire evicts name N from the full cache,
\* onEvicted calls Purge or Close on N's segment, once, N is still in the
\* universe, and N is no longer cached, so that the next Acquire(N) opens
\* the segment and caches it again.
C25_EvictionCloses ==
  [][\A t \in Callers :
       (pc[t] = "Acquire_add" /\ pc'[t] = "acquired") =>
         /\ frame'[t].seg.name \in Cached(cache')
         /\ \A N \in Cached(cache) \ Cached(cache') :
              /\ evictCalls' = <<N>>
              /\ N \in DOMAIN segments'
              /\ Len(cache) = maxOpen
    ]_vars

\* C26: Close empties the universe and then the cache, and when it returns
\* the eviction callback has called Close or Purge on the segment of every
\* entry the cache held.
C26_CloseClosesAll ==
  [][\A t \in Callers :
       /\ (pc[t] = "idle" /\ pc'[t] = "Close_purge") => segments' = EmptyMap
       /\ (pc[t] = "Close_purge" /\ pc'[t] = "idle") =>
            /\ cache' = <<>>
            /\ \A N \in Cached(cache) : \E i \in 1..Len(evictCalls') : evictCalls'[i] = N
    ]_vars

\* C27: Remove(ctx, name) with ctx not cancelled deletes the name from the
\* universe, takes one permit, drops the cached entry and gives the permit
\* back; once it has returned, and as long as the name is not added again,
\* the name is not cached and no Acquire(name) returns a segment.
C27_RemovedIsGone ==
  [][/\ \A t \in Callers :
          /\ (pc[t] = "idle" /\ pc'[t] = "Remove_sem") => frame'[t].name \notin DOMAIN segments'
          /\ (pc[t] = "Remove_sem" /\ pc'[t] = "Remove_cache") => semaphore' = semaphore + 1
          /\ (pc[t] = "Remove_cache" /\ pc'[t] = "idle") =>
                /\ semaphore' = semaphore - 1
                /\ frame[t].name \notin Cached(cache')
     /\ (/\ ret.op = "Remove" /\ ~ret.early
         /\ ret.name \notin DOMAIN segments /\ ret.name \notin DOMAIN segments') =>
           /\ ret.name \notin Cached(cache')
           /\ \A u \in Callers : (pc'[u] = "acquired" /\ pc[u] # "acquired") =>
                                   frame'[u].seg.name # ret.name
    ]_vars

\* A step in which the entry of name N leaves the cache while N is not in
\* the universe is, for some caller, one of `removers`.
StaleLeavesBy(removers) ==
  \A N \in Names :
    (N \in Cached(cache) /\ N \notin Cached(cache') /\ N \notin DOMAIN segments) =>
      \E t \in Callers : <<pc[t], pc'[t]>> \in removers

\* What C28 says of the early return itself, and of Acquire on a cached
\* name: Remove has deleted the name from the universe when it starts to
\* wait; the return on a cancelled ctx takes no permit and leaves the cache
\* as it is; an Acquire that finds the name cached returns the cached
\* segment.
RemoveReturnsEarly ==
  \A t \in Callers :
    /\ (pc[t] = "idle" /\ pc'[t] = "Remove_sem") => frame'[t].name \notin DOMAIN segments'
    /\ (pc[t] = "Remove_sem" /\ pc'[t] = "idle") =>
          /\ frame[t].cancelled
          /\ ret'.early
          /\ semaphore' = semaphore
          /\ cache' = cache
    /\ (pc[t] = "Acquire_cache" /\ frame[t].name \in Cached(cache)) =>
          /\ pc'[t] \in {"Acquire_cache", "acquired"}
          /\ pc'[t] = "acquired" =>
               \E i \in 1..Len(cache) : /\ cache[i].key = frame[t].name
                                        /\ frame'[t].seg = cache[i].value

\* In the state a cancelled Remove of N returns to, a step that takes the
\* entry of N out of the cache is, for some caller, one of `removers`.
EarlyLeavesBy(removers) ==
  \A N \in Names :
    (/\ ret.op = "Remove" /\ ret.early /\ ret.name = N
     /\ N \in Cached(cache) /\ N \notin Cached(cache')) =>
      \E t \in Callers : <<pc[t], pc'[t]>> \in removers

\* C28 as stated: only the eviction by an Acquire's cache.Add and the purge
\* of Close take the entry a cancelled Remove left behind out of the cache.
C28_AsStated ==
  [][/\ RemoveReturnsEarly
     /\ EarlyLeavesBy({<<"Acquire_add", "acquired">>, <<"Close_purge", "idle">>})]_vars

\* C28: a Remove whose ctx is cancelled while it waits for a permit returns
\* with the name deleted from the universe, the cache untouched and no
\* permit taken; the stale entry leaves the cache only by an LRU eviction,
\* by the purge of Close or by a later Remove of the name that gets its
\* permit, and until then Acquire(name) returns the cached segment.
C28_StaleEntryStays ==
  [][/\ RemoveReturnsEarly
     /\ StaleLeavesBy({<<"Acquire_add", "acquired">>, <<"Close_purge", "idle">>,
                       <<"Remove_cache", "idle">>})]_vars

\* C28 witness: Remove has returned early while the other caller holds the
\* only permit; the name is out of the universe and still cached.
C28_Witness ==
  /\ ret.op = "Remove"
  /\ ret.early
  /\ ret.name \notin DOMAIN segments
  /\ ret.name \in Cached(cache)
  /\ maxOpen = 1
  /\ semaphore = 1
  /\ \E t \in Callers : pc[t] = "acquired" /\ frame[t].seg.name = ret.name


\* C29: when tableBatch.Write returns nil, every key whose put the batch
\* holds (its Put returned nil) reads back, by Table.Get, the value put last,
\* also when the key's segment was compacted between the Put and the Write.
C29_BatchWriteVisible ==
  [][\A t \in Threads :
       ( /\ pc[t] = "Batch_write"
         /\ pc'[t] = "idle"
         /\ ret'.err = NoError )
       => \A n \in DOMAIN batches :
            LET ops == batches[n].ops IN
            (ops # <<>> /\ ~ops[Len(ops)].del)
              => \E r \in {GetValue(ops[Len(ops)].key)'} :
                   r.err = NoError /\ bytesEqual(r.value, ops[Len(ops)].value)]_vars


\* C30: a CreateSegmentIfNotExists that returns an error (the segment cannot
\* be opened, the uncompaction fails, the name is below active, or the
\* compaction after the creation fails) leaves active, ldbSegments and the
\* universe as they were.
C30_CreateErrorUnchanged ==
  [][\A t \in Threads :
       ( /\ pc[t] \in {"Create_lock", "Uncompact_acquire"}
         /\ pc'[t] = "idle"
         /\ ret'.err # NoError )
       => UNCHANGED <<active, ldbSegments, segments>>]_vars


\* C31: a Commit that directly follows a Finalise, with any pair of
\* deleteEmptyObjects flags, calls updateStateObject for no account whose
\* live object carries the deleted flag, and such an account, absent from
\* the account trie after the Finalise, is absent from it after the Commit.
C31_DeletedStaysDeleted ==
  [][(dbret.op = "Finalise" /\ dbret'.op = "Commit" /\ dbret'.d = dbret.d) =>
       LET old == stateDBs[dbret.d]
           new == stateDBs'[dbret.d]
       IN \A addr \in DOMAIN old.stateObjects :
            (old.stateObjects[addr].deleted /\ addr \notin DOMAIN old.trie) =>
              /\ addr \notin dbret'.updated
              /\ addr \notin DOMAIN new.trie]_vars


\* Transactions that only emit logs: Prepare sets the transaction hash,
\* AddLog stores a log, snapshots are taken and reverted to, transactions
\* and blocks end and the StateDB is reset; between two transactions it is
\* copied, and then the copy runs a transaction with a snapshot while the
\* StateDB it was copied from still takes logs.
NextLogs ==
  \/ /\ Len(stateDBs) = 1
     /\ \/ \E thash \in 1..2 : SDPrepare(1, thash)
        \/ SDAddLog(1)
        \/ SDSnapshot(1)
        \/ \E revid \in 0..MaxRevisions : SDRevertToSnapshot(1, revid)
        \/ SDFinalise(1, TRUE)
        \/ SDCommit(1, TRUE, NoAddr)
        \/ \E root \in {emptyState, UnknownRoot} : SDReset(1, root)
        \/ stateDBs[1].journal = <<>> /\ SDCopy(1)
  \/ /\ Len(stateDBs) = 2
     /\ \/ SDAddLog(1)
        \/ SDPrepare(2, 2)
        \/ SDAddLog(2)
        \/ SDSnapshot(2)
        \/ SDRevertToSnapshot(2, 0)

SpecLogs == InitCopy /\ [][NextLogs]_vars

\* db.Logs(): the logs stored under every transaction hash.
Logs(s) == UNION {{s.logs[h][i] : i \in 1..Len(s.logs[h])} : h \in DOMAIN s.logs}

\* The number of logs stored under all transaction hashes.
StoredLogs(s) == Cardinality({<<h, i>> \in (DOMAIN s.logs) \X (1..MaxLogs) : i <= Len(s.logs[h])})

\* C32: in every state of every StateDB, logSize is the number of logs
\* stored under all transaction hashes, the Index values of the stored logs
\* are 0 .. logSize - 1, each once, and within one transaction hash they
\* increase in the order the logs were added.
C32_LogIndexes ==
  \A d \in DOMAIN stateDBs :
    LET s == stateDBs[d] IN
    /\ s.logSize = StoredLogs(s)
    /\ {l.Index : l \in Logs(s)} = 0..(s.logSize - 1)
    /\ Cardinality(Logs(s)) = s.logSize
    /\ \A h \in DOMAIN s.logs :
         /\ s.logs[h] # <<>>
         /\ \A i \in 1..Len(s.logs[h]) : s.logs[h][i].TxHash = h
         /\ \A i, k \in 1..Len(s.logs[h]) : i < k => s.logs[h][i].Index < s.logs[h][k].Index

\* C32 witness: a RevertToSnapshot has just popped the third log of a copied
\* StateDB that keeps one log under each of two transaction hashes, while
\* the StateDB it was copied from holds a different number of logs.
C32_Witness ==
  /\ Len(stateDBs) = 2
  /\ dbret.op = "RevertToSnapshot"
  /\ dbret.d = 2
  /\ ~dbret.panic
  /\ dbret.undone = 1
  /\ stateDBs[2].logSize = 2
  /\ DOMAIN stateDBs[2].logs = {1, 2}
  /\ stateDBs[1].logSize # 2


\* ---------------------------------------------------------------- EventFeed
\* close(ch) on the channels: the closed flag is set.
closeChan(c, ch) == [c EXCEPT ![ch].closed = TRUE]

\* f.mu can be write-locked: no Send holds the read lock.
NoReader == \A u \in Threads : pc[u] # "Send_loop"

\* What an EventFeed method leaves behind when it returns.
FeedReturn(t, op, ch) ==
  /\ pc' = [pc EXCEPT ![t] = "idle"]
  /\ frame' = [frame EXCEPT ![t] = NoCall]
  /\ ret' = [op |-> op, thread |-> t, ch |-> ch]
  /\ evictCalls' = <<>>
  /\ UNCHANGED <<ssVars, tblVars, batches, sdbVars>>

\* EventFeed.Subscribe, lines 127-134, under the write lock.
FeedSubscribe(t, ch) ==
  /\ feedPanic = NoPanic
  /\ Idle(t)
  /\ NoReader
  /\ subscribed[ch] < MaxSubscribes
  /\ subs' = [nil |-> FALSE, m |-> MapPut(subs.m, ch, "name")]
  /\ subscribed' = [subscribed EXCEPT ![ch] = @ + 1]
  /\ FeedReturn(t, "Subscribe", ch)
  /\ UNCHANGED <<chans, feedPanic>>

\* An Unsubscribe that closes the channel whether it is subscribed or not.
FeedUnsubscribeClosesAlways(t, ch) ==
  /\ feedPanic = NoPanic
  /\ Idle(t)
  /\ NoReader
  /\ subs' = IF subs # NilSubs /\ ch \in DOMAIN subs.m THEN [subs EXCEPT !.m = MapDelete(@, ch)] ELSE subs
  /\ IF chans[ch].closed
     THEN chans' = chans /\ feedPanic' = "close of closed channel"
     ELSE chans' = closeChan(chans, ch) /\ feedPanic' = feedPanic
  /\ FeedReturn(t, "Unsubscribe", ch)
  /\ UNCHANGED subscribed

\* EventFeed.Unsubscribe, lines 136-143, under the write lock: a channel in
\* subs is deleted from it and closed; closing a closed channel panics.
FeedUnsubscribe(t, ch) ==
  /\ feedPanic = NoPanic
  /\ Idle(t)
  /\ NoReader
  /\ IF subs # NilSubs /\ ch \in DOMAIN subs.m
     THEN /\ subs' = [subs EXCEPT !.m = MapDelete(@, ch)]
          /\ IF chans[ch].closed
             THEN chans' = chans /\ feedPanic' = "close of closed channel"
             ELSE chans' = closeChan(chans, ch) /\ feedPanic' = feedPanic
     ELSE UNCHANGED <<subs, chans, feedPanic>>
  /\ FeedReturn(t, "Unsubscribe", ch)
  /\ UNCHANGED subscribed

\* EventFeed.Close, lines 118-125, under the write lock: every channel of
\* subs is closed, in the map's iteration order (any), and subs becomes nil.
\* The close of a closed channel panics: the channels before it are closed
\* and subs stays.
FeedClose(t) ==
  /\ feedPanic = NoPanic
  /\ Idle(t)
  /\ NoReader
  /\ LET all == IF subs = NilSubs THEN {} ELSE DOMAIN subs.m
         open == {c \in all : ~chans[c].closed}
     IN IF all = open
        THEN /\ chans' = [c \in Chans |-> IF c \in all THEN [chans[c] EXCEPT !.closed = TRUE]
                                            ELSE chans[c]]
             /\ subs' = NilSubs
             /\ feedPanic' = feedPanic
        ELSE /\ \E before \in SUBSET open :
                  chans' = [c \in Chans |-> IF c \in before THEN [chans[c] EXCEPT !.closed = TRUE]
                                            ELSE chans[c]]
             /\ subs' = subs
             /\ feedPanic' = "close of closed channel"
  /\ FeedReturn(t, "Close", 0)
  /\ UNCHANGED subscribed

\* EventFeed.Send, lines 147-150: the read lock is taken (no writer holds
\* the lock between steps) and the loop over subs starts.
FeedSendStart(t) ==
  /\ feedPanic = NoPanic
  /\ Idle(t)
  /\ pc' = [pc EXCEPT ![t] = "Send_loop"]
  /\ frame' = [frame EXCEPT ![t] = [op |-> "Send", todo |-> IF subs = NilSubs THEN {} ELSE DOMAIN subs.m]]
  /\ ret' = NoReturn
  /\ evictCalls' = <<>>
  /\ UNCHANGED <<ssVars, tblVars, batches, sdbVars, feedVars>>

\* One round of the loop of Send, lines 150-165: the event is queued when
\* the channel has room (at once, or delayed until a receiver made room) and
\* dropped after the timeout when it is full; a send on a closed channel
\* panics.
FeedSendOne(t, ch) ==
  /\ feedPanic = NoPanic
  /\ pc[t] = "Send_loop"
  /\ ch \in frame[t].todo
  /\ IF chans[ch].closed
     THEN chans' = chans /\ feedPanic' = "send on closed channel"
     ELSE /\ chans' = IF chans[ch].len < MaxChanCap THEN [chans EXCEPT ![ch].len = @ + 1] ELSE chans
          /\ feedPanic' = feedPanic
  /\ frame' = [frame EXCEPT ![t].todo = @ \ {ch}]
  /\ ret' = NoReturn
  /\ evictCalls' = <<>>
  /\ UNCHANGED <<ssVars, tblVars, batches, sdbVars, pc, subs, subscribed>>

\* Send, line 166: the loop is over, the read lock is given back.
FeedSendEnd(t) ==
  /\ feedPanic = NoPanic
  /\ pc[t] = "Send_loop"
  /\ frame[t].todo = {}
  /\ FeedReturn(t, "Send", 0)
  /\ UNCHANGED feedVars

\* The owner of a channel receives one event from it.
FeedReceive(ch) ==
  /\ feedPanic = NoPanic
  /\ chans[ch].len > 0
  /\ chans' = [chans EXCEPT ![ch].len = @ - 1]
  /\ ret' = NoReturn
  /\ evictCalls' = <<>>
  /\ UNCHANGED <<ssVars, tblVars, batches, sdbVars, pc, frame, subs, subscribed, feedPanic>>

InitFeed ==
  /\ TableIdle
  /\ stateDBs = <<>>
  /\ codeBlobs = {}
  /\ dbret = NoDBReturn
  /\ atSnapshot = EmptyMap

\* Goroutines calling Subscribe, Unsubscribe, Send and Close on one
\* EventFeed, and the receivers of the channels.
NextFeed ==
  \/ \E t \in Threads :
       \/ \E ch \in Chans : FeedSubscribe(t, ch)
       \/ \E ch \in Chans : FeedUnsubscribe(t, ch)
       \/ FeedClose(t)
       \/ FeedSendStart(t)
       \/ \E ch \in Chans : FeedSendOne(t, ch)
       \/ FeedSendEnd(t)
  \/ \E ch \in Chans : FeedReceive(ch)

SpecFeed == InitFeed /\ [][NextFeed]_vars

====
